---------------------------- MODULE Spec2Model ----------------------------
(***************************************************************************)
(* A model of the btc15m-data collector.                                   *)
(*                                                                         *)
(*   - KalshiFeed (internal/kalshi, the WebSocket client): the Run/connect *)
(*     task with its reader, and the discovery task's UpdateMetadata and   *)
(*     UpdateSubscriptions calls.  Every critical section of mu or writeMu *)
(*     is one atomic action; the code never holds both locks at once.      *)
(*   - Collector (internal/collector): the tick loop, the watchdog, the    *)
(*     daily-rotating Writer and the background compressFile tasks, over   *)
(*     a wall clock counted in seconds.                                    *)
(*                                                                         *)
(* Go maps are functions whose DOMAIN is the set of keys present.          *)
(***************************************************************************)
EXTENDS Integers, Sequences, FiniteSets, TLC

(***************************************************************************)
(* Bounds of the exploration.                                              *)
(***************************************************************************)
\* dials explored (each successful dial makes a new connection)
MaxConns == 2
\* command ids used on one connection before discovery stops reconciling
MaxCmds == 3
\* largest quantity a delta may build up at one price level
MaxQty == 8
\* seconds of wall clock explored by the watchdog specification
WatchHorizon == 125
\* seconds of wall clock explored around midnight by the rotation specification
RotateHorizon == 4
\* seconds of wall clock explored by the tick specification
TickHorizon == 4
\* successful writes explored in one run of the collector
MaxTicks == 2
\* seconds the clock may advance while one tick is between its stamp and its write
MaxTickLag == 1
\* seconds of wall clock explored by the stall specification: a stall check
\* made exactly 90 s after a write is followed by the next one
StallHorizon == 152
\* contracts of the series listed at the exchange
MaxListed == 4
\* the exchange's own cap on the contracts in one page
MaxPage == 2

(***************************************************************************)
(* Constants of the program.                                               *)
(***************************************************************************)
\* the UTC date of a time is its day number (time.Now().UTC().Format("2006-01-02"))
SecondsPerDay == 86400
\* time.Since(lastWrite) > 90*time.Second
StallThreshold == 90
\* time.NewTicker(30 * time.Second), the watchdog's stall check
CheckPeriod == 30

Tickers == {"A", "B"}

(***************************************************************************)
(* KalshiFeed state (part_008, lines 21-44) and the tasks' positions.      *)
(***************************************************************************)
VARIABLES
    prices,             \* ticker -> MarketPrice                  (mu)
    books,              \* ticker -> Orderbook                    (mu)
    metadata,           \* ticker -> MarketMeta                   (mu)
    desiredTickers,     \* set of tickers                         (mu)
    conn,               \* 0 = nil, else the id of the connection (writeMu)
    tickerSID,          \*                                        (writeMu)
    orderbookSID,       \*                                        (writeMu)
    subscribedTickers,  \* set of tickers                         (writeMu)
    cmdSeq,             \*                                        (writeMu)
    connected,          \* atomic.Bool
    runPc,              \* position of the Run/connect task
    connTickers,        \* connect's local `tickers`
    dPc,                \* position of the discovery task
    usDesired,          \* UpdateSubscriptions' local `desired`
    usToRemove,         \* UpdateSubscriptions' local `toRemove`
    everDesired,        \* every ticker desiredTickers has held so far
    hidden,             \* tickers of the GetMarkets call that failed in the latest pass
    wire,               \* commands written on the current connection, in order
    connBroken,         \* the peer or the network has failed the connection
    acked,              \* subscribe commands of this connection acknowledged so far
    everPriced,         \* tickers a ticker message has been handled for
    dropped,            \* tickers a delta of which the reader has dropped on this connection
    bookConn            \* ticker -> the connection its book's snapshot was read on

(***************************************************************************)
(* Collector, Writer and compressor state (part_007, writer.go).           *)
(***************************************************************************)
VARIABLES
    now,                \* the wall clock, in seconds
    colPc,              \* position of Collector.Run's loop
    tickReady,          \* the 1 s ticker has a tick waiting in ticker.C
    tickTs,             \* tick's local `now`, 0 outside tick
    lastWriteTime,      \* 0 = the zero time.Time                (lastWriteMu)
    tickCount,          \*                                        (lastWriteMu)
    stallSince,         \* when the first tick since the last successful write ended
                        \* without a record, 0 = none
    recovered,          \* a tick has ended in the deferred recover
    cancelled,          \* the context Run derives has been cancelled
    wdPc,               \* position of the watchdog task
    wdNext,             \* when the watchdog's 30 s ticker fires next
    wFile,              \* Writer.file with fileDate: <<>> = nil  (Writer.mu)
    fs,                 \* the files of the output directory
    comp,               \* path (its date) -> position of its compressFile task
    lastRec             \* the record appended last and its file: <<>> before the first

(***************************************************************************)
(* BRTIProxy and the exchange feeds (part_005).                            *)
(***************************************************************************)
VARIABLES
    feeds,              \* feed name -> baseFeed: midPrice, and IsStale() now
    brtiPrice,          \* BRTIProxy.price                        (BRTIProxy.mu)
    brtiRet,            \* what the last BRTIProxy.Snapshot call returned
    lastFreshRet,       \* what the last call that saw a fresh feed returned
    rejected            \* the feeds whose latest setPrice call returned
                        \* without storing the price

(***************************************************************************)
(* main (cmd/datacollector/main.go).                                       *)
(***************************************************************************)
VARIABLES
    mainPc,             \* position of main
    attempt,            \* the auth check's `attempt`
    sigCancelled,       \* main's ctx has been cancelled by the signal goroutine
    exitCode,           \* the process's exit code once mainPc = "exited"
    spotPc,             \* position of the exchange feeds' goroutines
    waited              \* seconds main has spent in the auth check's backoff select

(***************************************************************************)
(* The two locks of KalshiFeed (part_008, lines 26-43), seen alone: who    *)
(* holds them and where each task stands in the function it runs.          *)
(***************************************************************************)
VARIABLES
    lkFn,               \* task -> the lock operations of the function it runs
    lkIx,               \* task -> index of its next lock operation
    muW,                \* the task holding mu for writing, "" = none
    muR,                \* the tasks holding mu for reading
    wmu                 \* the task holding writeMu, "" = none

(***************************************************************************)
(* The discovery loop's timer (part_007, lines 88-110).                    *)
(***************************************************************************)
VARIABLES
    minute,             \* time.Now().Minute()
    wait                \* the interval discoveryLoop waits for and the minute
                        \* it was computed in: <<>> before the first

(***************************************************************************)
(* The exchange's market listing and Client.GetMarkets (part_009, lines    *)
(* 160-178).                                                               *)
(***************************************************************************)
VARIABLES
    exMarkets,          \* the series' contracts at the exchange, in listing
                        \* order: the status of each
    exPage,             \* the most contracts the exchange puts in one page
    gmResult            \* status asked for, what GetMarkets returned, and the
                        \* cursor of the last response: <<>> before the first

(***************************************************************************)
(* compressFile run again (writer.go, lines 90-155).                       *)
(***************************************************************************)
VARIABLES
    rerun               \* the dates whose compressFile was started again after
                        \* a run that ended "compressed"

(***************************************************************************)
(* The Run loops of the exchange feeds (part_003, part_004, bitstamp.go).  *)
(***************************************************************************)
VARIABLES
    sfPc,               \* feed name -> position of its Run
    sfWaited,           \* feed name -> seconds spent in Run's select
    sfCancelled         \* the ctx handed to Run has been cancelled


readVars == <<prices, books, metadata, desiredTickers>>
writeVars == <<conn, tickerSID, orderbookSID, subscribedTickers, cmdSeq>>
runVars == <<runPc, connTickers>>
discVars == <<dPc, usDesired, usToRemove, everDesired, hidden>>
envVars == <<wire, connBroken, acked, dropped, everPriced, bookConn>>
feedVars == <<readVars, writeVars, connected, runVars, discVars, envVars>>

clockVars == <<now, tickReady>>
tickVars == <<colPc, tickTs, lastWriteTime, tickCount, stallSince, recovered>>
watchVars == <<cancelled, wdPc, wdNext>>
writerVars == <<wFile, fs, comp, lastRec>>
brtiVars == <<feeds, brtiPrice, brtiRet, lastFreshRet, rejected>>
mainVars == <<mainPc, attempt, sigCancelled, exitCode, spotPc, waited>>
lockVars == <<lkFn, lkIx, muW, muR, wmu>>
timerVars == <<minute, wait>>
pageVars == <<exMarkets, exPage, gmResult>>
spotVars == <<sfPc, sfWaited, sfCancelled>>
pureVars == <<timerVars, pageVars, rerun, spotVars>>
restVars == <<mainVars, lockVars, pureVars>>
progVars == <<feedVars, clockVars, tickVars, watchVars, writerVars, brtiVars,
              mainVars, lockVars>>
sideVars == <<brtiVars, restVars>>
collVars == <<clockVars, tickVars, watchVars, writerVars, sideVars>>

vars == <<feedVars, collVars>>

EmptyMap == <<>>
None == <<>>

\* delete(m, k) of a Go map
MapDelete(m, k) == [x \in DOMAIN m \ {k} |-> m[x]]
\* m[k] = v of a Go map
MapSet(m, k, v) == [x \in DOMAIN m \cup {k} |-> IF x = k THEN v ELSE m[x]]
\* m[k] read of a Go map of ints: the zero value when absent
MapGet(m, k) == IF k \in DOMAIN m THEN m[k] ELSE 0
\* delete every key of ks
MapDeleteAll(m, ks) == [x \in DOMAIN m \ ks |-> m[x]]

(***************************************************************************)
(* Commands (wsCommand with subscribeParams / updateSubParams).            *)
(***************************************************************************)
SubscribeCmd(id, ts, ok) ==
    [id |-> id, cmd |-> "subscribe", action |-> "", sids |-> <<>>,
     tickers |-> ts, ok |-> ok]

UpdateCmd(id, act, tsid, osid, ts, ok) ==
    [id |-> id, cmd |-> "update_subscription", action |-> act,
     sids |-> <<tsid, osid>>, tickers |-> ts, ok |-> ok]

\* conn.WriteJSON succeeds unless the connection has failed
WriteOK == ~connBroken

(***************************************************************************)
(* Run / connect (part_008, lines 107-169).                                *)
(***************************************************************************)
\* f.dial succeeds: a new connection
DialOK ==
    /\ runPc = "dial"
    /\ conn < MaxConns
    /\ runPc' = "reset"
    /\ UNCHANGED <<readVars, writeVars, connected, connTickers,
                   discVars, envVars, collVars>>

\* f.dial fails: connect returns, Run stores connected=false and waits
DialFail ==
    /\ runPc = "dial"
    /\ runPc' = "down"
    /\ UNCHANGED <<readVars, writeVars, connected, connTickers,
                   discVars, envVars, collVars>>

\* "Reset write-side state", under writeMu
ConnectReset ==
    /\ runPc = "reset"
    /\ conn' = conn + 1
    /\ tickerSID' = 0
    /\ orderbookSID' = 0
    /\ subscribedTickers' = {}
    /\ cmdSeq' = 0
    /\ wire' = <<>>
    /\ connBroken' = FALSE
    /\ acked' = 0
    /\ dropped' = {}
    /\ runPc' = "clear"
    /\ UNCHANGED <<readVars, connected, connTickers, discVars, everPriced, bookConn,
                   collVars>>

\* a variant of ConnectClearBooks that also drops the prices
ConnectClearBooksAndPrices ==
    /\ runPc = "clear"
    /\ books' = EmptyMap
    /\ bookConn' = EmptyMap
    /\ prices' = EmptyMap
    /\ runPc' = "read_desired"
    /\ UNCHANGED <<metadata, desiredTickers, writeVars, connected,
                   connTickers, discVars, wire, connBroken, acked, dropped,
                   everPriced, collVars>>

\* a variant of ConnectClearBooks that keeps the books of the connection
\* before
ConnectKeepBooks ==
    /\ runPc = "clear"
    /\ runPc' = "read_desired"
    /\ UNCHANGED <<readVars, writeVars, connected, connTickers, discVars,
                   envVars, collVars>>

\* "Clear orderbooks", under mu
ConnectClearBooks ==
    /\ runPc = "clear"
    /\ books' = EmptyMap
    /\ bookConn' = EmptyMap
    /\ runPc' = "read_desired"
    /\ UNCHANGED <<prices, metadata, desiredTickers, writeVars, connected,
                   connTickers, discVars, wire, connBroken, acked, dropped,
                   everPriced, collVars>>

\* tickers := keys of desiredTickers, under mu.RLock
ConnectReadDesired ==
    /\ runPc = "read_desired"
    /\ connTickers' = desiredTickers
    /\ runPc' = "subscribe"
    /\ UNCHANGED <<readVars, writeVars, connected, discVars, envVars,
                   collVars>>

\* subscribeLocked(tickers): the subscribedTickers it leaves
subscribeLocked(sub, ts, ok) == IF ok THEN sub \cup ts ELSE sub

\* if len(tickers) > 0 { subscribeLocked under writeMu }, then either
\* connected.Store(true) is next or connect returns the write error
ConnectSubscribe ==
    /\ runPc = "subscribe"
    /\ IF connTickers # {}
       THEN /\ cmdSeq' = cmdSeq + 1
            /\ wire' = Append(wire, SubscribeCmd(cmdSeq + 1, connTickers, WriteOK))
            /\ subscribedTickers' =
                   subscribeLocked(subscribedTickers, connTickers, WriteOK)
            /\ runPc' = IF WriteOK THEN "mark" ELSE "down"
       ELSE /\ runPc' = "mark"
            /\ UNCHANGED <<cmdSeq, wire, subscribedTickers>>
    /\ connTickers' = {}
    /\ UNCHANGED <<readVars, conn, tickerSID, orderbookSID, connected,
                   discVars, connBroken, acked, dropped, everPriced, bookConn,
                   collVars>>

\* f.connected.Store(true); the reader starts
ConnectMark ==
    /\ runPc = "mark"
    /\ connected' = TRUE
    /\ runPc' = "reading"
    /\ UNCHANGED <<readVars, writeVars, connTickers, discVars, envVars,
                   collVars>>

\* the connection fails (peer close, network loss, deadline)
ConnBreak ==
    /\ conn # 0
    /\ runPc \in {"clear", "read_desired", "subscribe", "mark", "reading"}
    /\ ~connBroken
    /\ connBroken' = TRUE
    /\ UNCHANGED <<readVars, writeVars, connected, runVars, discVars, wire,
                   acked, dropped, everPriced, bookConn, collVars>>

\* conn.ReadMessage returns an error: readLoop and connect return
ReadError ==
    /\ runPc = "reading"
    /\ connBroken
    /\ runPc' = "down"
    /\ UNCHANGED <<readVars, writeVars, connected, connTickers,
                   discVars, envVars, collVars>>

\* Run: f.connected.Store(false), then the 2 s wait begins
RunDown ==
    /\ runPc = "down"
    /\ connected' = FALSE
    /\ runPc' = "wait"
    /\ UNCHANGED <<readVars, writeVars, connTickers, discVars, envVars,
                   collVars>>

\* a variant of RunRetry in which Run gives up after the wait
RunRetryGivesUp ==
    /\ runPc = "wait"
    /\ runPc' = "stopped"
    /\ UNCHANGED <<readVars, writeVars, connected, connTickers,
                   discVars, envVars, collVars>>

\* Run: the 2 s wait is over, connect is called again
RunRetry ==
    /\ runPc = "wait"
    /\ runPc' = "dial"
    /\ UNCHANGED <<readVars, writeVars, connected, connTickers,
                   discVars, envVars, collVars>>

(***************************************************************************)
(* The reader (part_008, lines 276-407).                                   *)
(***************************************************************************)
\* the price -> qty map handleOrderbookSnapshot builds from a [][2]int:
\* a later entry of the same price overwrites an earlier one
RECURSIVE LevelsToMap(_)
LevelsToMap(levels) ==
    IF levels = <<>> THEN EmptyMap
    ELSE LET n == Len(levels)
         IN  MapSet(LevelsToMap(SubSeq(levels, 1, n - 1)),
                    levels[n][1], levels[n][2])

\* handleTicker: the prices map it leaves
handleTicker(ps, m) ==
    MapSet(ps, m.ticker,
           [YesBid |-> m.yes_bid, YesAsk |-> m.yes_ask, LastPrice |-> m.price,
            Volume |-> m.volume, OpenInterest |-> m.open_interest])

\* handleOrderbookSnapshot: the books map it leaves
handleOrderbookSnapshot(bks, m) ==
    MapSet(bks, m.ticker,
           [Yes |-> LevelsToMap(m.yes), No |-> LevelsToMap(m.no), Ready |-> TRUE])

\* a variant of ApplyDelta that deletes a level only below zero
ApplyDeltaKeepZero(side, price, delta) ==
    LET added == [x \in DOMAIN side \cup {price} |->
                     IF x = price
                     THEN (IF price \in DOMAIN side THEN side[price] ELSE 0) + delta
                     ELSE side[x]]
    IN  IF added[price] < 0
        THEN [x \in DOMAIN added \ {price} |-> added[x]]
        ELSE added

\* side[d.Price] += d.Delta; if side[d.Price] <= 0 { delete(side, d.Price) }
ApplyDelta(side, price, delta) ==
    LET added == MapSet(side, price, MapGet(side, price) + delta)
    IN  IF added[price] <= 0 THEN MapDelete(added, price) ELSE added

\* a variant of handleOrderbookDelta without the `!ok || !book.Ready` return
handleOrderbookDeltaUnguarded(bks, m) ==
    LET book == IF m.ticker \in DOMAIN bks THEN bks[m.ticker]
                ELSE [Yes |-> EmptyMap, No |-> EmptyMap, Ready |-> FALSE]
    IN  IF m.side = "yes"
        THEN MapSet(bks, m.ticker,
                    [book EXCEPT !.Yes = ApplyDelta(book.Yes, m.price, m.delta)])
        ELSE MapSet(bks, m.ticker,
                    [book EXCEPT !.No = ApplyDelta(book.No, m.price, m.delta)])

\* handleOrderbookDelta: the books map it leaves
handleOrderbookDelta(bks, m) ==
    IF m.ticker \notin DOMAIN bks \/ ~bks[m.ticker].Ready
    THEN bks
    ELSE LET book == bks[m.ticker]
         IN  IF m.side = "yes"
             THEN MapSet(bks, m.ticker,
                         [book EXCEPT !.Yes = ApplyDelta(book.Yes, m.price, m.delta)])
             ELSE MapSet(bks, m.ticker,
                         [book EXCEPT !.No = ApplyDelta(book.No, m.price, m.delta)])

\* handleOK: <<tickerSID, orderbookSID>> after the entries, in order
RECURSIVE handleOK(_, _)
handleOK(sids, entries) ==
    IF entries = <<>> THEN sids
    ELSE LET e == Head(entries)
             next == CASE e.Channel = "ticker" -> <<e.SID, sids[2]>>
                       [] e.Channel = "orderbook_delta" -> <<sids[1], e.SID>>
                       [] OTHER -> sids
         IN  handleOK(next, Tail(entries))

\* the subscribe commands written so far on this connection
Subscribes == {i \in 1..Len(wire) : wire[i].cmd = "subscribe" /\ wire[i].ok}

\* the acknowledgement of the k-th subscribe of a connection: one sid a channel
AckMsg(k) ==
    [type |-> "ok", parses |-> TRUE,
     entries |-> <<[Channel |-> "ticker", SID |-> 2 * k - 1],
                   [Channel |-> "orderbook_delta", SID |-> 2 * k]>>]

\* the quantity a delta message would leave at its level
DeltaResult(m) ==
    IF m.ticker \in DOMAIN books
    THEN MapGet(IF m.side = "yes" THEN books[m.ticker].Yes ELSE books[m.ticker].No,
                m.price) + m.delta
    ELSE 0

\* the delta handler returns at `if !ok || !book.Ready`
Dropped(bks, m) ==
    m.type = "orderbook_delta"
    /\ (m.ticker \notin DOMAIN bks \/ ~bks[m.ticker].Ready)

\* one turn of readLoop: conn.ReadMessage returns envelope m and the switch
\* on env.Type runs its handler, which takes its lock once
Handle(m) ==
    /\ runPc = "reading"
    /\ ~connBroken
    /\ m.type = "orderbook_delta" => DeltaResult(m) <= MaxQty
    /\ prices' = IF m.type = "ticker" THEN handleTicker(prices, m) ELSE prices
    /\ books' = CASE m.type = "orderbook_snapshot" ->
                         handleOrderbookSnapshot(books, m)
                  [] m.type = "orderbook_delta" ->
                         handleOrderbookDelta(books, m)
                  [] OTHER -> books
    /\ LET sids == IF m.type = "ok" /\ m.parses
                   THEN handleOK(<<tickerSID, orderbookSID>>, m.entries)
                   ELSE <<tickerSID, orderbookSID>>
       IN  /\ tickerSID' = sids[1]
           /\ orderbookSID' = sids[2]
    /\ dropped' = IF Dropped(books, m) THEN dropped \cup {m.ticker} ELSE dropped
    /\ everPriced' = IF m.type = "ticker" THEN everPriced \cup {m.ticker}
                     ELSE everPriced
    /\ bookConn' = IF m.type = "orderbook_snapshot"
                   THEN MapSet(bookConn, m.ticker, conn) ELSE bookConn
    /\ UNCHANGED <<metadata, desiredTickers, conn, subscribedTickers, cmdSeq,
                   connected, runVars, discVars, wire, connBroken, collVars>>

\* the peer sends an envelope of msgs
Receive(msgs) == \E m \in msgs : Handle(m) /\ acked' = acked

\* the peer acknowledges the next subscribe command it was sent
ReceiveAck ==
    /\ acked < Cardinality(Subscribes)
    /\ Handle(AckMsg(acked + 1))
    /\ acked' = acked + 1

(***************************************************************************)
(* Discovery: Collector.discover (part_007, lines 112-136) calling         *)
(* UpdateMetadata and UpdateSubscriptions (part_008, lines 436-562).       *)
(***************************************************************************)
\* the expiry GetMarkets reports for a ticker, as ExpirationParsed gives
\* it: 0 is the zero time.Time of a string that does not parse
ExpiryOf == ("A" :> 3) @@ ("B" :> 0)

\* UpdateMetadata: the metadata map it leaves
UpdateMetadata(meta, open, closed) ==
    [t \in DOMAIN meta \cup open \cup closed |->
        IF t \in closed THEN [Status |-> "closed", Expiry |-> ExpiryOf[t]]
        ELSE IF t \in open THEN [Status |-> "open", Expiry |-> ExpiryOf[t]]
        ELSE meta[t]]

\* discover: the exchange lists listedOpen and listedClosed; a GetMarkets
\* call named in errs fails, its error is logged and its list stays empty;
\* with any market at all, UpdateMetadata runs under mu
DiscoverPass(listedOpen, listedClosed, errs) ==
    LET open == IF "open" \in errs THEN {} ELSE listedOpen
        closed == IF "closed" \in errs THEN {} ELSE listedClosed
    IN  /\ dPc = "idle"
        /\ cmdSeq + 2 <= MaxCmds
        /\ hidden' = (listedOpen \cup listedClosed) \ (open \cup closed)
        /\ IF open \cup closed = {}
           THEN UNCHANGED <<metadata, dPc, usDesired>>
           ELSE /\ metadata' = UpdateMetadata(metadata, open, closed)
                /\ usDesired' = open \cup closed
                /\ dPc' = "us_set"
        /\ UNCHANGED <<prices, books, desiredTickers, writeVars, connected,
                       runVars, usToRemove, everDesired, envVars, collVars>>

\* a pass whose two calls return open and closed
Discover(open, closed) == DiscoverPass(open, closed, {})

\* UpdateSubscriptions: f.desiredTickers = desired, under mu
USSetDesired ==
    /\ dPc = "us_set"
    /\ desiredTickers' = usDesired
    /\ everDesired' = everDesired \cup usDesired
    /\ dPc' = "us_check"
    /\ UNCHANGED <<prices, books, metadata, writeVars, connected, runVars,
                   usDesired, usToRemove, hidden, envVars, collVars>>

\* if !f.connected.Load() { return }
USCheckConnected ==
    /\ dPc = "us_check"
    /\ dPc' = IF connected THEN "us_lock" ELSE "idle"
    /\ usDesired' = IF connected THEN usDesired ELSE {}
    /\ UNCHANGED <<readVars, writeVars, connected, runVars, usToRemove,
                   everDesired, hidden, envVars, collVars>>

\* a variant of ToAdd that names every desired ticker
ToAddAll(desired, subscribed) == desired

\* toAdd and toRemove of UpdateSubscriptions
ToAdd(desired, subscribed) == desired \ subscribed
ToRemove(desired, subscribed) == subscribed \ desired

\* the `len(toRemove) > 0 && f.tickerSID != 0` of the removal
RemoveSent(toRemove, tsid) == toRemove # {} /\ tsid # 0

\* the commands UpdateSubscriptions writes under writeMu, in order
USCommands(desired, subscribed, tsid, osid, seq, ok) ==
    LET toAdd == ToAdd(desired, subscribed)
        toRemove == ToRemove(desired, subscribed)
        add == IF toAdd = {} THEN <<>>
               ELSE IF tsid = 0 THEN <<SubscribeCmd(seq + 1, toAdd, ok)>>
               ELSE <<UpdateCmd(seq + 1, "add_markets", tsid, osid, toAdd, ok)>>
        rem == IF RemoveSent(toRemove, tsid)
               THEN <<UpdateCmd(seq + Len(add) + 1, "remove_markets", tsid, osid,
                                toRemove, ok)>>
               ELSE <<>>
    IN  add \o rem

\* a variant of USSubscribed that always ends with the desired set
USSubscribedExact(desired, subscribed, tsid) == desired

\* subscribedTickers as UpdateSubscriptions leaves it
USSubscribed(desired, subscribed, tsid) ==
    LET toAdd == ToAdd(desired, subscribed)
        toRemove == ToRemove(desired, subscribed)
    IN  IF RemoveSent(toRemove, tsid)
        THEN (subscribed \cup toAdd) \ toRemove
        ELSE subscribed \cup toAdd

\* the writeMu section of UpdateSubscriptions: diff, commands, bookkeeping
USLocked ==
    /\ dPc = "us_lock"
    /\ IF conn = 0
       THEN /\ dPc' = "idle"
            /\ usDesired' = {}
            /\ UNCHANGED <<subscribedTickers, cmdSeq, wire, usToRemove>>
       ELSE LET cmds == USCommands(usDesired, subscribedTickers, tickerSID,
                                   orderbookSID, cmdSeq, WriteOK)
                toRemove == ToRemove(usDesired, subscribedTickers)
            IN  /\ wire' = wire \o cmds
                /\ cmdSeq' = cmdSeq + Len(cmds)
                /\ subscribedTickers' =
                       USSubscribed(usDesired, subscribedTickers, tickerSID)
                /\ usToRemove' = toRemove
                /\ usDesired' = {}
                /\ dPc' = IF toRemove # {} THEN "us_cleanup" ELSE "idle"
    /\ UNCHANGED <<readVars, conn, tickerSID, orderbookSID, connected, runVars,
                   everDesired, hidden, connBroken, acked, dropped, everPriced,
                   bookConn, collVars>>

\* "Clean up caches for removed tickers", under mu
USCleanup ==
    /\ dPc = "us_cleanup"
    /\ prices' = MapDeleteAll(prices, usToRemove)
    /\ books' = MapDeleteAll(books, usToRemove)
    /\ metadata' = MapDeleteAll(metadata, usToRemove)
    /\ bookConn' = MapDeleteAll(bookConn, usToRemove)
    /\ usToRemove' = {}
    /\ dPc' = "idle"
    /\ UNCHANGED <<desiredTickers, writeVars, connected, runVars, usDesired,
                   everDesired, hidden, wire, connBroken, acked, dropped,
                   everPriced, collVars>>

(***************************************************************************)
(* Snapshot (part_008, lines 565-618), called at time `now`.               *)
(***************************************************************************)
\* sortedLevels: the (price, qty) pairs by ascending price; nil when empty
RECURSIVE sortedLevels(_)
sortedLevels(m) ==
    IF DOMAIN m = {} THEN <<>>
    ELSE LET lo == CHOOSE p \in DOMAIN m : \A q \in DOMAIN m : p <= q
         IN  <<<<lo, m[lo]>>>> \o sortedLevels(MapDelete(m, lo))

ZeroPrice ==
    [YesBid |-> 0, YesAsk |-> 0, LastPrice |-> 0, Volume |-> 0, OpenInterest |-> 0]

\* a variant of SecsLeft without the `if secsLeft < 0` clamp
SecsLeftUnclamped(expiry, t) == expiry - t

\* secsLeft := int(time.Until(expiry).Seconds()); if secsLeft < 0 { 0 }
SecsLeft(expiry, t) == IF expiry - t < 0 THEN 0 ELSE expiry - t

\* a variant of Snapshot that merges the prices only beside a ready book
SnapshotPriceWithBook ==
    [t \in DOMAIN metadata |->
        [Status |-> metadata[t].Status,
         SecsLeft |-> SecsLeft(metadata[t].Expiry, now),
         Price |-> IF t \in DOMAIN prices /\ t \in DOMAIN books /\ books[t].Ready
                   THEN prices[t] ELSE ZeroPrice,
         YesBook |-> IF t \in DOMAIN books /\ books[t].Ready
                     THEN sortedLevels(books[t].Yes) ELSE <<>>,
         NoBook |-> IF t \in DOMAIN books /\ books[t].Ready
                    THEN sortedLevels(books[t].No) ELSE <<>>]]

Snapshot ==
    [t \in DOMAIN metadata |->
        [Status |-> metadata[t].Status,
         SecsLeft |-> SecsLeft(metadata[t].Expiry, now),
         Price |-> IF t \in DOMAIN prices THEN prices[t] ELSE ZeroPrice,
         YesBook |-> IF t \in DOMAIN books /\ books[t].Ready
                     THEN sortedLevels(books[t].Yes) ELSE <<>>,
         NoBook |-> IF t \in DOMAIN books /\ books[t].Ready
                    THEN sortedLevels(books[t].No) ELSE <<>>]]

(***************************************************************************)
(* What the peer may send.                                                 *)
(***************************************************************************)
TickerMsg(t) ==
    [type |-> "ticker", ticker |-> t, yes_bid |-> 40, yes_ask |-> 42,
     price |-> 41, volume |-> 7, open_interest |-> 3]

SnapshotMsg(t, yes, no) ==
    [type |-> "orderbook_snapshot", ticker |-> t, yes |-> yes, no |-> no]

DeltaMsg(t, side, price, delta) ==
    [type |-> "orderbook_delta", ticker |-> t, side |-> side, price |-> price,
     delta |-> delta]

OtherMsgs ==
    {[type |-> "error"], [type |-> "ok", parses |-> FALSE, entries |-> <<>>]}

\* a small book on every ticker
StreamMsgs ==
    {TickerMsg(t) : t \in Tickers}
    \cup {SnapshotMsg(t, <<<<50, 1>>>>, <<>>) : t \in Tickers}
    \cup OtherMsgs

\* scenario S2's book and deltas on one ticker, a snapshot that carries an
\* empty level, and a snapshot that lists one price twice
BookMsgs ==
    {TickerMsg("A"),
     SnapshotMsg("A", <<<<50, 10>>, <<51, 5>>>>, <<<<49, 8>>>>),
     SnapshotMsg("A", <<<<50, 0>>>>, <<>>),
     SnapshotMsg("A", <<<<50, 2>>, <<50, 4>>>>, <<>>),
     DeltaMsg("A", "yes", 51, 3),
     DeltaMsg("A", "no", 49, -8)}
    \cup OtherMsgs

(***************************************************************************)
(* The exchange feeds and BRTIProxy.Snapshot (part_005).  Prices are       *)
(* multiples of 10, so that the mean of two of them is exact.              *)
(***************************************************************************)
Feeds == {"coinbase", "kraken", "bitstamp"}
FeedOrder == <<"coinbase", "kraken", "bitstamp">>

\* the float64 NaN, a value no price takes (prices are multiples of 10);
\* as in IEEE 754, `NaN <= 0` is false
NaN == 1

\* what a feed may compute as its mid-price
FeedPrices == {NaN, -10, 0, 70000, 70010, 70020}

\* math.IsNaN
IsNaN(price) == price = NaN

\* `if math.IsNaN(price) || price <= 0 { return }`
Rejects(price) == IsNaN(price) \/ price <= 0

\* a variant of setPrice that stamps lastUpdate before it looks at the price
setPriceStampsFirst(fd, price) ==
    IF Rejects(price) THEN [fd EXCEPT !.stale = FALSE]
    ELSE [midPrice |-> price, stale |-> FALSE]

\* baseFeed.setPrice: midPrice = price and lastUpdate = time.Now() in one
\* section of b.mu
setPrice(fd, price) ==
    IF Rejects(price) THEN fd ELSE [midPrice |-> price, stale |-> FALSE]

\* an exchange reports a price to feed f
FeedUpdate(f, price) ==
    /\ feeds' = [feeds EXCEPT ![f] = setPrice(feeds[f], price)]
    /\ rejected' = IF Rejects(price) THEN rejected \cup {f} ELSE rejected \ {f}
    /\ UNCHANGED <<feedVars, clockVars, tickVars, watchVars, writerVars,
                   brtiPrice, brtiRet, lastFreshRet, restVars>>

\* more than 5 s pass without an update of feed f: IsStale() turns true
FeedAges(f) ==
    /\ ~feeds[f].stale
    /\ feeds' = [feeds EXCEPT ![f].stale = TRUE]
    /\ UNCHANGED <<feedVars, clockVars, tickVars, watchVars, writerVars,
                   brtiPrice, brtiRet, lastFreshRet, rejected, restVars>>

\* the loop of Snapshot: the mid-prices of the feeds that are not stale and
\* report a price above 0, in the order of b.feeds
RECURSIVE FreshPrices(_, _)
FreshPrices(fds, order) ==
    IF order = <<>> THEN <<>>
    ELSE LET fd == fds[Head(order)]
             rest == FreshPrices(fds, Tail(order))
         IN  IF ~fd.stale /\ fd.midPrice > 0 THEN <<fd.midPrice>> \o rest
             ELSE rest

\* a variant of median that takes the upper middle value of an even count
medianUpper(sorted) ==
    IF Len(sorted) = 0 THEN 0 ELSE sorted[Len(sorted) \div 2 + 1]

\* median of a sorted slice (indices from 1)
median(sorted) ==
    LET n == Len(sorted)
    IN  IF n = 0 THEN 0
        ELSE IF n % 2 = 0
        THEN (sorted[n \div 2] + sorted[n \div 2 + 1]) \div 2
        ELSE sorted[n \div 2 + 1]

\* BRTIProxy.Snapshot: what it returns and the b.price it leaves
BrtiSnapshot(fds, price) ==
    LET ps == FreshPrices(fds, FeedOrder)
    IN  IF Len(ps) = 0 THEN [ret |-> price, price |-> price]
        ELSE LET m == median(SortSeq(ps, LAMBDA a, b : a < b))
             IN  [ret |-> m, price |-> m]

\* a call of BRTIProxy.Snapshot (main's startup log, tick)
SnapshotCall ==
    LET r == BrtiSnapshot(feeds, brtiPrice)
    IN  /\ brtiPrice' = r.price
        /\ brtiRet' = r.ret
        /\ lastFreshRet' = IF Len(FreshPrices(feeds, FeedOrder)) > 0 THEN r.ret
                           ELSE lastFreshRet
        /\ UNCHANGED <<feeds, rejected>>

\* a call of Snapshot outside tick
BrtiCall ==
    /\ SnapshotCall
    /\ UNCHANGED <<feedVars, clockVars, tickVars, watchVars, writerVars,
                   restVars>>

(***************************************************************************)
(* The wall clock and Collector.Run's loop (part_007, lines 65-86).        *)
(***************************************************************************)
\* the UTC date of a time, as a day number
DateOf(t) == t \div SecondsPerDay

\* one second passes and the 1 s ticker fires.  Within a second Run's select
\* takes a waiting tick and the watchdog makes a stall check that is due; a
\* tick in progress lasts at most lag seconds
Advance(horizon, lag) ==
    /\ now < horizon
    /\ colPc # "returned"
    /\ ~(colPc = "select" /\ tickReady)
    /\ ~(wdPc = "run" /\ now >= wdNext)
    /\ colPc = "tick" => now - tickTs < lag
    /\ now' = now + 1
    /\ tickReady' = TRUE
    /\ UNCHANGED <<feedVars, sideVars, tickVars, watchVars, writerVars>>

\* select takes <-ticker.C: tick begins with now := time.Now() and
\* c.brti.Snapshot()
TickStart ==
    /\ colPc = "select"
    /\ tickReady
    /\ tickReady' = FALSE
    /\ tickTs' = now
    /\ colPc' = "tick"
    /\ SnapshotCall
    /\ UNCHANGED <<feedVars, now, lastWriteTime, tickCount, stallSince, recovered,
                   watchVars, writerVars, restVars>>

\* a variant of TickPanic without the deferred recover: the panic unwinds
\* Run's loop
TickPanicEndsRun ==
    /\ colPc = "tick"
    /\ colPc' = "returned"
    /\ tickTs' = 0
    /\ stallSince' = IF stallSince = 0 THEN now ELSE stallSince
    /\ recovered' = TRUE
    /\ UNCHANGED <<feedVars, sideVars, clockVars, lastWriteTime, tickCount, watchVars,
                   writerVars>>

\* tick panics before it reaches the writer; the deferred recover logs
TickPanic ==
    /\ colPc = "tick"
    /\ colPc' = "select"
    /\ tickTs' = 0
    /\ stallSince' = IF stallSince = 0 THEN now ELSE stallSince
    /\ recovered' = TRUE
    /\ UNCHANGED <<feedVars, sideVars, clockVars, lastWriteTime, tickCount, watchVars,
                   writerVars>>

\* select takes <-ctx.Done(): Run returns ctx.Err()
RunReturn ==
    /\ colPc = "select"
    /\ cancelled
    /\ colPc' = "returned"
    /\ UNCHANGED <<feedVars, sideVars, clockVars, tickTs, lastWriteTime, tickCount,
                   stallSince, recovered, watchVars, writerVars>>

(***************************************************************************)
(* The watchdog (part_007, lines 207-256).                                 *)
(***************************************************************************)
\* a variant of StallDetected that takes any age of the last write for a stall
StallDetectedAnyAge(lastWrite, t) ==
    lastWrite # 0 /\ t - lastWrite > 0

\* a variant of StallDetected that cancels at 90 s sharp
StallDetectedAtThreshold(lastWrite, t) ==
    lastWrite # 0 /\ t - lastWrite >= StallThreshold

\* a variant of StallDetected that waits one check period more
StallDetectedLate(lastWrite, t) ==
    lastWrite # 0 /\ t - lastWrite > StallThreshold + CheckPeriod

\* !lastWrite.IsZero() && time.Since(lastWrite) > 90*time.Second
StallDetected(lastWrite, t) ==
    lastWrite # 0 /\ t - lastWrite > StallThreshold

\* case <-ticker.C: the stall check
WatchdogCheck ==
    /\ wdPc = "run"
    /\ ~cancelled
    /\ now >= wdNext
    /\ IF StallDetected(lastWriteTime, now)
       THEN /\ cancelled' = TRUE
            /\ wdPc' = "done"
            /\ UNCHANGED wdNext
       ELSE /\ wdNext' = wdNext + CheckPeriod
            /\ UNCHANGED <<cancelled, wdPc>>
    /\ UNCHANGED <<feedVars, sideVars, clockVars, tickVars, writerVars>>

(***************************************************************************)
(* The Writer (writer.go, lines 32-77) and the end of tick.                *)
(***************************************************************************)
File(date, open) == <<[date |-> date, open |-> open]>>

\* a variant of ensureFile that hands the path it has just opened to
\* `go compressFile`
ensureFileCompressNew(file, today, openOK) ==
    IF file # None /\ file[1].date = today
    THEN [file |-> file, err |-> FALSE, spawn |-> None, create |-> None]
    ELSE IF ~openOK
    THEN [file |-> IF file = None THEN None ELSE File(file[1].date, FALSE),
          err |-> TRUE, spawn |-> None, create |-> None]
    ELSE [file |-> File(today, TRUE), err |-> FALSE,
          spawn |-> IF file = None THEN None ELSE <<today>>,
          create |-> <<today>>]

\* ensureFile: the file it leaves, its error, the path handed to
\* `go compressFile` and the file OpenFile has created
ensureFile(file, today, openOK) ==
    IF file # None /\ file[1].date = today
    THEN [file |-> file, err |-> FALSE, spawn |-> None, create |-> None]
    ELSE IF ~openOK
    THEN [file |-> IF file = None THEN None ELSE File(file[1].date, FALSE),
          err |-> TRUE, spawn |-> None, create |-> None]
    ELSE [file |-> File(today, TRUE), err |-> FALSE,
          spawn |-> IF file = None THEN None ELSE <<file[1].date>>,
          create |-> <<today>>]

\* Writer.Write: json.Marshal, ensureFile, file.Write
Write(file, today, marshalOK, openOK, writeOK) ==
    IF ~marshalOK
    THEN [file |-> file, err |-> TRUE, spawn |-> None, create |-> None]
    ELSE LET e == ensureFile(file, today, openOK)
         IN  [e EXCEPT !.err = e.err \/ ~writeOK \/ ~e.file[1].open]

\* restFallback: secs_left of every market the two GetMarkets calls
\* returned (rest: ticker -> expiry), computed after the calls
restFallback(rest, t) == [tk \in DOMAIN rest |-> SecsLeft(rest[tk], t)]

\* the markets of tick's record: Snapshot() when the stream IsConnected,
\* restFallback otherwise
TickMarkets(rest) ==
    IF connected THEN [tk \in DOMAIN Snapshot |-> Snapshot[tk].SecsLeft]
    ELSE restFallback(rest, now)

\* the number of records appended so far: the last one's ordinal
Appended(rec) == IF rec = None THEN 0 ELSE rec[1].n

\* a variant of AfterWrite that counts the tick whatever Write returned
AfterWriteAlways(err, lastWrite, count, t) ==
    [lastWriteTime |-> lastWrite, tickCount |-> count + 1]

\* `if err := c.writer.Write(rec); err != nil { log } else {
\* c.lastWriteTime = time.Now(); c.tickCount++ }`
AfterWrite(err, lastWrite, count, t) ==
    IF err THEN [lastWriteTime |-> lastWrite, tickCount |-> count]
    ELSE [lastWriteTime |-> t, tickCount |-> count + 1]

\* the rest of tick: the markets are read, c.writer.Write(rec), and on
\* success lastWriteTime = time.Now() and tickCount++
TickWrite(marshalOK, openOK, writeOK, rest) ==
    /\ colPc = "tick"
    /\ LET w == Write(wFile, DateOf(now), marshalOK, openOK, writeOK)
       IN  /\ ~w.err => tickCount < MaxTicks
           /\ wFile' = w.file
           /\ fs' = IF w.create = None THEN fs
                    ELSE fs \cup {<<w.create[1], "jsonl">>}
           /\ comp' = IF w.spawn = None THEN comp
                      ELSE MapSet(comp, w.spawn[1], "stat_gz")
           /\ lastRec' = IF w.err THEN lastRec
                         ELSE <<[ts |-> tickTs, file |-> w.file[1].date,
                                 ws |-> connected,
                                 secs |-> TickMarkets(rest),
                                 n |-> Appended(lastRec) + 1]>>
           /\ lastWriteTime' =
                  AfterWrite(w.err, lastWriteTime, tickCount, now).lastWriteTime
           /\ tickCount' =
                  AfterWrite(w.err, lastWriteTime, tickCount, now).tickCount
           /\ stallSince' = IF ~w.err THEN 0
                            ELSE IF stallSince = 0 THEN now ELSE stallSince
    /\ colPc' = "select"
    /\ tickTs' = 0
    /\ UNCHANGED <<feedVars, sideVars, clockVars, watchVars, recovered>>

(***************************************************************************)
(* compressFile (writer.go, lines 90-155), one system call a step.         *)
(***************************************************************************)
Src(d) == <<d, "jsonl">>
Gz(d) == <<d, "gz">>
Tmp(d) == <<d, "tmp">>

\* a variant of CompressCall whose rename leaves the .gz.tmp behind
CompressCallKeepTmp(pc, files, d, ok) ==
    CASE pc = "stat_gz" ->
             [pc |-> IF Gz(d) \in files THEN "stat_src_dup" ELSE "stat_src",
              fs |-> files]
      [] pc = "stat_src_dup" ->
             [pc |-> IF Src(d) \in files THEN "remove_dup" ELSE "returned",
              fs |-> files]
      [] pc = "remove_dup" ->
             [pc |-> "returned", fs |-> IF ok THEN files \ {Src(d)} ELSE files]
      [] pc = "stat_src" ->
             [pc |-> IF Src(d) \in files THEN "open" ELSE "returned",
              fs |-> files]
      [] pc = "open" ->
             [pc |-> IF ok THEN "create" ELSE "failed", fs |-> files]
      [] pc = "create" ->
             [pc |-> IF ok THEN "copy" ELSE "failed",
              fs |-> IF ok THEN files \cup {Tmp(d)} ELSE files]
      [] pc \in {"copy", "gz_close", "tmp_close"} ->
             [pc |-> IF ~ok THEN "failed"
                     ELSE IF pc = "copy" THEN "gz_close"
                     ELSE IF pc = "gz_close" THEN "tmp_close" ELSE "rename",
              fs |-> IF ok THEN files ELSE files \ {Tmp(d)}]
      [] pc = "rename" ->
             [pc |-> IF ok THEN "remove" ELSE "failed",
              fs |-> IF ok THEN files \cup {Gz(d)} ELSE files \ {Tmp(d)}]
      [] pc = "remove" ->
             [pc |-> IF ok THEN "compressed" ELSE "failed",
              fs |-> IF ok THEN files \ {Src(d)} ELSE files]

\* a variant of StatGz that always reports the .gz in place
StatGzAlways(files, d) == TRUE

\* a variant of StatGz that never finds the .gz
StatGzNever(files, d) == FALSE

\* `_, err := os.Stat(dstPath); err == nil`
StatGz(files, d) == Gz(d) \in files

\* the next system call of compressFile(path of date d) at position pc, which
\* succeeds or not: the position and the directory it leaves.  The task ends
\* "compressed" (its last log line), "failed" (an error logged) or
\* "returned" (one of the early returns)
CompressCall(pc, files, d, ok) ==
    CASE pc = "stat_gz" ->
             [pc |-> IF StatGz(files, d) THEN "stat_src_dup" ELSE "stat_src",
              fs |-> files]
      [] pc = "stat_src_dup" ->
             [pc |-> IF Src(d) \in files THEN "remove_dup" ELSE "returned",
              fs |-> files]
      [] pc = "remove_dup" ->
             [pc |-> "returned", fs |-> IF ok THEN files \ {Src(d)} ELSE files]
      [] pc = "stat_src" ->
             [pc |-> IF Src(d) \in files THEN "open" ELSE "returned",
              fs |-> files]
      [] pc = "open" ->
             [pc |-> IF ok THEN "create" ELSE "failed", fs |-> files]
      [] pc = "create" ->
             [pc |-> IF ok THEN "copy" ELSE "failed",
              fs |-> IF ok THEN files \cup {Tmp(d)} ELSE files]
      [] pc \in {"copy", "gz_close", "tmp_close"} ->
             [pc |-> IF ~ok THEN "failed"
                     ELSE IF pc = "copy" THEN "gz_close"
                     ELSE IF pc = "gz_close" THEN "tmp_close" ELSE "rename",
              fs |-> IF ok THEN files ELSE files \ {Tmp(d)}]
      [] pc = "rename" ->
             [pc |-> IF ok THEN "remove" ELSE "failed",
              fs |-> IF ok THEN (files \ {Tmp(d)}) \cup {Gz(d)}
                     ELSE files \ {Tmp(d)}]
      [] pc = "remove" ->
             [pc |-> IF ok THEN "compressed" ELSE "failed",
              fs |-> IF ok THEN files \ {Src(d)} ELSE files]

CompressDone == {"compressed", "failed", "returned"}

\* one step of the compressFile task of date d
compressFile(d, ok) ==
    /\ d \in DOMAIN comp
    /\ comp[d] \notin CompressDone
    /\ LET c == CompressCall(comp[d], fs, d, ok)
       IN  /\ comp' = MapSet(comp, d, c.pc)
           /\ fs' = c.fs
    /\ UNCHANGED <<feedVars, sideVars, clockVars, tickVars, watchVars, wFile, lastRec>>

\* CompressStaleFiles(dir, prefix) in a directory holding `files` on the UTC
\* date `today` (writer.go, lines 159-182): the .gz.tmp files are removed,
\* and `go compressFile(f)` for every .jsonl of another date
CompressStaleFiles(files, today) ==
    [fs |-> files \ {f \in files : f[2] = "tmp"},
     spawn |-> {f[1] : f \in {g \in files : g[2] = "jsonl" /\ g[1] # today}}]

\* compressFile is called for the file of date d after an earlier call for
\* it has returned
CompressAgain(d) ==
    /\ d \in DOMAIN comp
    /\ comp[d] \in CompressDone
    /\ comp' = MapSet(comp, d, "stat_gz")
    /\ rerun' = IF comp[d] = "compressed" THEN rerun \cup {d} ELSE rerun
    /\ UNCHANGED <<feedVars, brtiVars, mainVars, lockVars, clockVars, tickVars,
                   watchVars, wFile, fs, lastRec, timerVars, pageVars, spotVars>>

(***************************************************************************)
(* Initial state: NewKalshiFeed, collector.New, NewWriter.                 *)
(***************************************************************************)
FeedInit ==
    /\ prices = EmptyMap
    /\ books = EmptyMap
    /\ metadata = EmptyMap
    /\ desiredTickers = {}
    /\ conn = 0
    /\ tickerSID = 0
    /\ orderbookSID = 0
    /\ subscribedTickers = {}
    /\ cmdSeq = 0
    /\ connected = FALSE
    /\ runPc = "dial"
    /\ connTickers = {}
    /\ dPc = "idle"
    /\ usDesired = {}
    /\ usToRemove = {}
    /\ everDesired = {}
    /\ hidden = {}
    /\ wire = <<>>
    /\ connBroken = FALSE
    /\ acked = 0
    /\ dropped = {}
    /\ everPriced = {}
    /\ bookConn = EmptyMap

(***************************************************************************)
(* main (cmd/datacollector/main.go, lines 60-148).                         *)
(***************************************************************************)
\* const maxAuthAttempts = 5
MaxAuthAttempts == 5

\* what main leaves unchanged outside its own position
ProbeOnly ==
    UNCHANGED <<feedVars, clockVars, tickVars, watchVars, writerVars, brtiVars,
                lockVars, pureVars, sigCancelled, spotPc>>

MainOnly == ProbeOnly /\ UNCHANGED waited

\* os.Exit(code), or main returns (code 0)
Exit(code) == mainPc' = "exited" /\ exitCode' = code

\* SIGINT or SIGTERM: the signal goroutine calls cancel(); the context Run
\* derives from main's is cancelled with it
Signal ==
    /\ mainPc # "exited"
    /\ ~sigCancelled
    /\ sigCancelled' = TRUE
    /\ cancelled' = TRUE
    /\ UNCHANGED <<feedVars, clockVars, tickVars, wdPc, wdNext, writerVars,
                   brtiVars, lockVars, pureVars, mainPc, attempt, exitCode,
                   spotPc, waited>>

\* client.GetBalance(ctx) returns without error
GetBalanceOK ==
    /\ mainPc = "auth"
    /\ ~sigCancelled
    /\ mainPc' = "feeds"
    /\ UNCHANGED <<attempt, exitCode>>
    /\ MainOnly

\* client.GetBalance(ctx) returns an error: give up at the last attempt,
\* else go to the backoff select
GetBalanceFail ==
    /\ mainPc = "auth"
    /\ IF attempt = MaxAuthAttempts
       THEN Exit(1)
       ELSE mainPc' = "backoff" /\ exitCode' = exitCode
    /\ UNCHANGED attempt
    /\ MainOnly

\* a variant of backoff that grows with the attempt, not with its square
backoffLinear(k) == k * 15

\* `backoff := time.Duration(attempt*attempt) * 15 * time.Second`, in seconds
backoff(k) == k * k * 15

\* a second passes while main is in the backoff select
BackoffSecond ==
    /\ mainPc = "backoff"
    /\ waited < backoff(attempt)
    /\ waited' = waited + 1
    /\ UNCHANGED <<mainPc, attempt, exitCode>>
    /\ ProbeOnly

\* case <-time.After(backoff): the for statement's attempt++
BackoffElapsed ==
    /\ mainPc = "backoff"
    /\ waited >= backoff(attempt)
    /\ waited' = 0
    /\ attempt' = attempt + 1
    /\ mainPc' = "auth"
    /\ UNCHANGED exitCode
    /\ ProbeOnly

\* case <-ctx.Done(): "shutdown during auth retry", os.Exit(1)
BackoffCancelled ==
    /\ mainPc = "backoff"
    /\ sigCancelled
    /\ Exit(1)
    /\ UNCHANGED attempt
    /\ MainOnly

\* the feeds are started, waitForFeeds returns (a feed connected, 5 s
\* passed, or ctx.Done()), and main calls brti.Snapshot()
WaitForFeeds ==
    /\ mainPc = "feeds"
    /\ mainPc' = "writer"
    /\ spotPc' = "running"
    /\ SnapshotCall
    /\ UNCHANGED <<feedVars, clockVars, tickVars, watchVars, writerVars,
                   lockVars, pureVars, attempt, sigCancelled, exitCode, waited>>

\* the ctx.Done() the exchange feeds select on: main's ctx (f.Run(ctx))
SpotCtxDone == sigCancelled

\* an exchange feed's Run takes <-ctx.Done() and returns
SpotFeedReturn ==
    /\ mainPc # "exited"
    /\ spotPc = "running"
    /\ SpotCtxDone
    /\ spotPc' = "returned"
    /\ UNCHANGED <<feedVars, clockVars, tickVars, watchVars, writerVars,
                   brtiVars, lockVars, pureVars, mainPc, attempt, sigCancelled,
                   exitCode, waited>>

\* collector.NewWriter succeeds: main goes on to c.Run(ctx)
NewWriterOK ==
    /\ mainPc = "writer"
    /\ mainPc' = "run"
    /\ UNCHANGED <<attempt, exitCode>>
    /\ MainOnly

\* "writer init failed", os.Exit(1)
NewWriterFail ==
    /\ mainPc = "writer"
    /\ Exit(1)
    /\ UNCHANGED attempt
    /\ MainOnly

\* c.Run(ctx) has returned its ctx.Err(), which is never nil:
\* `if err != nil && ctx.Err() == nil { os.Exit(1) }`, else main returns
RunReturned ==
    /\ mainPc = "run"
    /\ colPc = "returned"
    /\ Exit(IF ~sigCancelled THEN 1 ELSE 0)
    /\ UNCHANGED attempt
    /\ MainOnly

(***************************************************************************)
(* The lock operations of KalshiFeed's functions (part_008), in program    *)
(* order: "W+"/"W-" writeMu.Lock/Unlock, "M+"/"M-" mu.Lock/Unlock,         *)
(* "R+"/"R-" mu.RLock/RUnlock.                                             *)
(***************************************************************************)
\* the goroutine of Run (connect, then readLoop), the discovery loop, and
\* Collector.tick
LockTasks == {"run", "disc", "tick"}

\* connect with no desired ticker, and with some (subscribeLocked)
connectLocks == <<"W+", "W-", "M+", "M-", "R+", "R-">>
connectSubscribeLocks == connectLocks \o <<"W+", "W-">>

\* handleTicker, handleOrderbookSnapshot, handleOrderbookDelta
handleStateLocks == <<"M+", "M-">>

\* handleOK with entries that parse
handleOKLocks == <<"W+", "W-">>

UpdateMetadataLocks == <<"M+", "M-">>

\* a variant of UpdateSubscriptions that cleans the caches up before it
\* releases writeMu
USCleanupInsideLocks == <<"M+", "M-", "W+", "M+", "M-", "W-">>

\* UpdateSubscriptions: not connected; connected; connected with removals
USNotConnectedLocks == <<"M+", "M-">>
USLocks == <<"M+", "M-", "W+", "W-">>
USCleanupLocks == <<"M+", "M-", "W+", "W-", "M+", "M-">>

SnapshotLocks == <<"R+", "R-">>

\* the functions a task may run next; readLoop's "error" and unknown
\* messages take no lock
LockFns(t) ==
    CASE t = "run" -> {connectLocks, connectSubscribeLocks, handleStateLocks,
                       handleOKLocks}
      [] t = "disc" -> {UpdateMetadataLocks, USNotConnectedLocks, USLocks,
                        USCleanupLocks}
      [] t = "tick" -> {SnapshotLocks}

\* the lock operation task t is at, "" between two functions
LockOp(t) == IF lkIx[t] <= Len(lkFn[t]) THEN lkFn[t][lkIx[t]] ELSE ""

\* t has called mu.Lock and not yet returned from it
WantsMu(t) == LockOp(t) = "M+"

\* sync.Mutex and sync.RWMutex: whether t's next operation returns now (a
\* pending mu.Lock holds new readers back)
LockFree(t) ==
    CASE LockOp(t) = "W+" -> wmu = ""
      [] LockOp(t) = "M+" -> muW = "" /\ muR = {}
      [] LockOp(t) = "R+" -> muW = "" /\ \A u \in LockTasks \ {t} : ~WantsMu(u)
      [] OTHER -> TRUE

\* t waits in a Lock or RLock call
Blocked(t) == ~LockFree(t)

\* task t enters function fn
LockCall(t, fn) ==
    /\ LockOp(t) = ""
    /\ lkFn' = [lkFn EXCEPT ![t] = fn]
    /\ lkIx' = [lkIx EXCEPT ![t] = 1]
    /\ UNCHANGED <<muW, muR, wmu>>
    /\ UNCHANGED <<feedVars, clockVars, tickVars, watchVars, writerVars,
                   brtiVars, mainVars, pureVars>>

\* task t's next Lock, RLock, Unlock or RUnlock returns
LockStep(t) ==
    /\ LockOp(t) # ""
    /\ LockFree(t)
    /\ wmu' = CASE LockOp(t) = "W+" -> t [] LockOp(t) = "W-" -> "" [] OTHER -> wmu
    /\ muW' = CASE LockOp(t) = "M+" -> t [] LockOp(t) = "M-" -> "" [] OTHER -> muW
    /\ muR' = CASE LockOp(t) = "R+" -> muR \cup {t}
                 [] LockOp(t) = "R-" -> muR \ {t}
                 [] OTHER -> muR
    /\ lkIx' = [lkIx EXCEPT ![t] = lkIx[t] + 1]
    /\ UNCHANGED lkFn
    /\ UNCHANGED <<feedVars, clockVars, tickVars, watchVars, writerVars,
                   brtiVars, mainVars, pureVars>>

LockInit ==
    /\ lkFn = [t \in LockTasks |-> <<>>]
    /\ lkIx = [t \in LockTasks |-> 1]
    /\ muW = ""
    /\ muR = {}
    /\ wmu = ""

LockNext ==
    \E t \in LockTasks : LockStep(t) \/ \E fn \in LockFns(t) : LockCall(t, fn)

(***************************************************************************)
(* discoveryInterval (part_007, lines 104-110), in seconds.                *)
(***************************************************************************)
discoveryInterval(m) ==
    LET min == m % 15
    IN  IF min <= 1 \/ min >= 14 THEN 5 ELSE 30

\* discoveryLoop: interval := c.discoveryInterval() before its select
DiscoveryWait ==
    /\ wait' = <<[minute |-> minute, interval |-> discoveryInterval(minute)]>>
    /\ UNCHANGED <<progVars, pageVars, rerun, spotVars, minute>>

\* the wall clock reaches the next minute
MinutePasses ==
    /\ minute' = (minute + 1) % 60
    /\ UNCHANGED <<progVars, pageVars, rerun, spotVars, wait>>

TimerInit == minute = 0 /\ wait = None

TimerNext == DiscoveryWait \/ MinutePasses

(***************************************************************************)
(* Client.GetMarkets (part_009, lines 160-178) against an exchange that    *)
(* pages its listing.                                                      *)
(***************************************************************************)
\* params.Set("limit", "200")
Limit == 200

Statuses == {"open", "closed"}

\* the contracts (by their place in the listing) with the status asked for
Matching(ms, status) ==
    SelectSeq([i \in 1..Len(ms) |-> i], LAMBDA i : ms[i] = status)

\* GET /markets at the exchange: at most `limit` and at most exPage
\* contracts from the cursor on, and the cursor of the next page, 0 (the
\* empty string) after the last
ExchangePage(list, cursor, limit, cap) ==
    LET size == IF limit < cap THEN limit ELSE cap
        last == IF cursor + size < Len(list) THEN cursor + size ELSE Len(list)
    IN  [markets |-> SubSeq(list, cursor + 1, last),
         cursor |-> IF last < Len(list) THEN last ELSE 0]

\* GetMarkets: one GET with limit=200 and no cursor; result.Markets is
\* returned, result.Cursor is decoded and not read
GetMarkets(ms, status, cap) ==
    LET result == ExchangePage(Matching(ms, status), 0, Limit, cap)
    IN  [markets |-> result.markets, cursor |-> result.cursor]

GetMarketsCall(status) ==
    /\ gmResult' = <<[status |-> status,
                      markets |-> GetMarkets(exMarkets, status, exPage).markets,
                      cursor |-> GetMarkets(exMarkets, status, exPage).cursor]>>
    /\ UNCHANGED <<progVars, timerVars, rerun, spotVars, exMarkets, exPage>>

PageInit == exMarkets = <<>> /\ exPage = 1 /\ gmResult = None /\ rerun = {}

(***************************************************************************)
(* Run and connect of CoinbaseFeed (part_003, lines 35-99), KrakenFeed     *)
(* (part_004) and BitstampFeed (bitstamp.go, lines 31-114), a second at a  *)
(* time.  A message that is parsed leaves Run where it is.                 *)
(***************************************************************************)
\* `case <-time.After(2 * time.Second)`
ReconnectWait == 2

SpotOnly == UNCHANGED <<progVars, timerVars, pageVars, rerun>>

\* the scope of the feeds is cancelled
SpotCancel ==
    /\ ~sfCancelled
    /\ sfCancelled' = TRUE
    /\ UNCHANGED <<sfPc, sfWaited>>
    /\ SpotOnly

\* DialContext and WriteJSON succeed: connect enters its read loop
SpotDialOK(f) ==
    /\ sfPc[f] = "connect"
    /\ ~sfCancelled
    /\ sfPc' = [sfPc EXCEPT ![f] = "read"]
    /\ UNCHANGED <<sfWaited, sfCancelled>>
    /\ SpotOnly

\* DialContext or WriteJSON fails (as it does once ctx is cancelled):
\* connect returns the error and Run goes to its select
SpotDialFail(f) ==
    /\ sfPc[f] = "connect"
    /\ sfPc' = [sfPc EXCEPT ![f] = "wait"]
    /\ UNCHANGED <<sfWaited, sfCancelled>>
    /\ SpotOnly

\* ReadMessage returns an error (the connection broke, or the read deadline
\* passed), or the read loop finds ctx.Done(): connect returns
SpotReadEnds(f) ==
    /\ sfPc[f] = "read"
    /\ sfPc' = [sfPc EXCEPT ![f] = "wait"]
    /\ UNCHANGED <<sfWaited, sfCancelled>>
    /\ SpotOnly

\* bitstamp.go, lines 101-106: a book message whose first bid or ask level
\* is an empty array passes `len(book.Bids) == 0 || len(book.Asks) == 0`,
\* and book.Bids[0][0] panics; nothing recovers in the feed's goroutine, so
\* the process ends with every feed
BitstampEmptyLevel ==
    /\ sfPc["bitstamp"] = "read"
    /\ sfPc' = [f \in Feeds |-> "panicked"]
    /\ UNCHANGED <<sfWaited, sfCancelled>>
    /\ SpotOnly

\* a second passes in Run's select
SpotWaitSecond(f) ==
    /\ sfPc[f] = "wait"
    /\ sfWaited[f] < ReconnectWait
    /\ sfWaited' = [sfWaited EXCEPT ![f] = @ + 1]
    /\ UNCHANGED <<sfPc, sfCancelled>>
    /\ SpotOnly

\* case <-time.After(2 * time.Second): the next connect
SpotReconnect(f) ==
    /\ sfPc[f] = "wait"
    /\ sfWaited[f] >= ReconnectWait
    /\ sfPc' = [sfPc EXCEPT ![f] = "connect"]
    /\ sfWaited' = [sfWaited EXCEPT ![f] = 0]
    /\ UNCHANGED sfCancelled
    /\ SpotOnly

\* case <-ctx.Done(): return ctx.Err()
SpotReturn(f) ==
    /\ sfPc[f] = "wait"
    /\ sfCancelled
    /\ sfPc' = [sfPc EXCEPT ![f] = "returned"]
    /\ sfWaited' = [sfWaited EXCEPT ![f] = 0]
    /\ UNCHANGED sfCancelled
    /\ SpotOnly

SpotInit ==
    /\ sfPc = [f \in Feeds |-> "connect"]
    /\ sfWaited = [f \in Feeds |-> 0]
    /\ sfCancelled = FALSE

SpotNext ==
    \/ SpotCancel \/ BitstampEmptyLevel
    \/ \E f \in Feeds :
           \/ SpotDialOK(f) \/ SpotDialFail(f) \/ SpotReadEnds(f)
           \/ SpotWaitSecond(f) \/ SpotReconnect(f) \/ SpotReturn(f)

PageNext == \E status \in Statuses : GetMarketsCall(status)

(***************************************************************************)
(* Start, steps and specifications.                                        *)
(***************************************************************************)
\* the parts seen alone, before any of their steps
PartsInit == LockInit /\ TimerInit /\ PageInit /\ SpotInit

\* the collector at its start, in a directory holding `files` and with the
\* compressFile tasks `tasks` running
CollInitIn(start, files, tasks) ==
    /\ now = start
    /\ colPc = "select"
    /\ tickReady = FALSE
    /\ tickTs = 0
    /\ lastWriteTime = 0
    /\ tickCount = 0
    /\ stallSince = 0
    /\ recovered = FALSE
    /\ cancelled = FALSE
    /\ wdPc = "run"
    /\ wdNext = start + CheckPeriod
    /\ wFile = None
    /\ fs = files
    /\ comp = tasks
    /\ lastRec = None
    /\ feeds = [f \in Feeds |-> [midPrice |-> 0, stale |-> TRUE]]
    /\ brtiPrice = 0
    /\ brtiRet = 0
    /\ lastFreshRet = 0
    /\ rejected = {}

CollInit(start) == CollInitIn(start, {}, EmptyMap)

\* main has reached c.Run(ctx) and no signal has arrived
MainStarted ==
    /\ waited = 0
    /\ mainPc = "run"
    /\ attempt = 1
    /\ sigCancelled = FALSE
    /\ exitCode = 0
    /\ spotPc = "running"

Init == FeedInit /\ CollInit(1) /\ MainStarted /\ PartsInit

\* the discovery loop started in any minute of the hour
TimerStart ==
    /\ FeedInit /\ CollInit(1) /\ MainStarted /\ LockInit /\ PageInit /\ SpotInit
    /\ minute \in 0..59
    /\ wait = None

\* main before the auth check
MainInit ==
    /\ FeedInit /\ CollInit(1) /\ PartsInit
    /\ mainPc = "auth"
    /\ attempt = 1
    /\ sigCancelled = FALSE
    /\ exitCode = 0
    /\ spotPc = "off"
    /\ waited = 0

\* what the two GetMarkets calls of discover may return: <<open, closed>>
StreamMarkets ==
    {<<open, {}>> : open \in SUBSET Tickers} \cup {<<{"A"}, {"B"}>>}

BookMarkets == {<<{"A"}, {}>>, <<{"B"}, {}>>}

Discovery(markets) == \E mk \in markets : Discover(mk[1], mk[2])

FeedTasks ==
    \/ DialOK \/ DialFail \/ ConnectReset \/ ConnectClearBooks
    \/ ConnectReadDesired \/ ConnectSubscribe \/ ConnectMark \/ ConnBreak
    \/ ReadError \/ RunDown \/ RunRetry \/ ReceiveAck
    \/ USSetDesired \/ USCheckConnected \/ USLocked \/ USCleanup

StreamNext == FeedTasks \/ Discovery(StreamMarkets) \/ Receive(StreamMsgs)

\* the exchange lists A as open and B as closed throughout; each of the two
\* GetMarkets calls of a pass may fail
FetchErrors == SUBSET {"open", "closed"}

DiscoveryErr == \E errs \in FetchErrors : DiscoverPass({"A"}, {"B"}, errs)

DiscoverNext == FeedTasks \/ DiscoveryErr \/ Receive(StreamMsgs)

BookNext == FeedTasks \/ Discovery(BookMarkets) \/ Receive(BookMsgs)

\* with ticks that end within the second they begin in
WatchNext ==
    \/ Advance(WatchHorizon, 0)
    \/ TickStart \/ TickPanic \/ RunReturn \/ WatchdogCheck
    \/ \E marshalOK, openOK, writeOK \in BOOLEAN :
           TickWrite(marshalOK, openOK, writeOK, EmptyMap)

\* the same over a longer time
StallNext ==
    \/ Advance(StallHorizon, 0)
    \/ TickStart \/ TickPanic \/ RunReturn \/ WatchdogCheck
    \/ \E marshalOK, openOK, writeOK \in BOOLEAN :
           TickWrite(marshalOK, openOK, writeOK, EmptyMap)

\* one market, open in every discovery pass
ReconnectMarkets == {<<{"A"}, {}>>}

\* the steps of Run's goroutine but the dial, and those of the discovery
\* loop
RunStep ==
    \/ ConnectReset \/ ConnectClearBooks \/ ConnectReadDesired
    \/ ConnectSubscribe \/ ConnectMark \/ ReadError \/ RunDown \/ RunRetry

\* (nothing is ever removed, so the cleanup of UpdateSubscriptions is
\* not reached)
DiscoveryStep ==
    \/ Discovery(ReconnectMarkets)
    \/ USSetDesired \/ USCheckConnected \/ USLocked

ReconnectNext ==
    \/ RunStep \/ DialOK \/ DialFail \/ ConnBreak \/ ReceiveAck
    \/ DiscoveryStep

MainNext ==
    \/ Signal \/ GetBalanceOK \/ GetBalanceFail \/ BackoffSecond
    \/ BackoffElapsed \/ BackoffCancelled \/ WaitForFeeds \/ NewWriterOK \/ NewWriterFail
    \/ RunReturned \/ SpotFeedReturn
    \/ (mainPc = "run" /\ WatchNext)

\* what restFallback's two GetMarkets calls may return
TickRest == {EmptyMap, ExpiryOf}

TickMarketsIn == {<<{"A"}, {"B"}>>, <<{"B"}, {}>>}

\* the stream's first connection and the discovery beside it
TickFeed ==
    \/ DialOK \/ ConnectReset \/ ConnectClearBooks \/ ConnectReadDesired
    \/ ConnectSubscribe \/ ConnectMark
    \/ USSetDesired \/ USCheckConnected \/ USLocked \/ USCleanup

TickNext ==
    \/ TickFeed \/ Discovery(TickMarketsIn)
    \/ Advance(TickHorizon, MaxTickLag)
    \/ TickStart \/ TickPanic
    \/ \E marshalOK, openOK, writeOK \in BOOLEAN : \E rest \in TickRest :
           TickWrite(marshalOK, openOK, writeOK, rest)

IndexNext ==
    \/ \E f \in Feeds : \E price \in FeedPrices : FeedUpdate(f, price)
    \/ \E f \in Feeds : FeedAges(f)
    \/ BrtiCall

\* the days the rotation specification spans
Days == {0, 1}

RotateNext ==
    \/ Advance(SecondsPerDay + RotateHorizon, MaxTickLag)
    \/ TickStart \/ TickPanic
    \/ \E marshalOK, openOK, writeOK \in BOOLEAN :
           TickWrite(marshalOK, openOK, writeOK, EmptyMap)
    \/ \E d \in Days : \E ok \in BOOLEAN : compressFile(d, ok)

\* the process starts two seconds before UTC midnight
RotateInit ==
    FeedInit /\ CollInit(SecondsPerDay - 2) /\ MainStarted /\ PartsInit

\* the stream with a one-level book on every ticker
Spec == Init /\ [][StreamNext]_vars

\* the stream with discovery passes whose calls may fail
SpecDiscover == Init /\ [][DiscoverNext]_vars

\* the stream with scenario S2's book on one ticker
SpecBook == Init /\ [][BookNext]_vars

\* the collector's loop and its watchdog from the start of the process
SpecWatch == Init /\ [][WatchNext]_vars

\* the collector's loop and its watchdog over five stall checks
SpecStall == Init /\ [][StallNext]_vars

\* the same, where time passes, a due stall check is made, a tick ends, and
\* select (which picks among its ready cases at random) does not avoid
\* <-ctx.Done() for ever
SpecWatchFair ==
    /\ SpecWatch
    /\ WF_vars(Advance(WatchHorizon, 0))
    /\ WF_vars(WatchdogCheck)
    /\ WF_vars(TickStart)
    /\ WF_vars(TickPanic \/ \E m, o, w \in BOOLEAN : TickWrite(m, o, w, EmptyMap))
    /\ SF_vars(RunReturn)

\* the stream and a discovery that always finds the one market A, where
\* the goroutine of Run and the discovery loop keep running and a dial
\* that is tried again and again succeeds in the end
SpecReconnect ==
    /\ Init /\ [][ReconnectNext]_vars
    /\ WF_vars(RunStep)
    /\ SF_vars(DialOK)
    /\ WF_vars(DiscoveryStep)

\* compressFile has been called for the file of every day, in a directory
\* that holds any of the files of these days
CompressStart ==
    /\ FeedInit /\ MainStarted /\ PartsInit
    /\ \E files \in SUBSET {<<d, kind>> : d \in Days, kind \in {"jsonl", "gz", "tmp"}} :
           CollInitIn(1, files, [d \in Days |-> "stat_gz"])

CompressNext ==
    \/ \E d \in Days : \E ok \in BOOLEAN : compressFile(d, ok)
    \/ \E d \in Days : CompressAgain(d)

\* compressFile on any directory, run and run again
SpecCompress == CompressStart /\ [][CompressNext]_vars

\* any listing of up to MaxListed contracts, paged by the exchange
PageStart ==
    /\ FeedInit /\ CollInit(1) /\ MainStarted /\ LockInit /\ TimerInit
    /\ exMarkets \in UNION {[1..n -> Statuses] : n \in 0..MaxListed}
    /\ exPage \in 1..MaxPage
    /\ gmResult = None
    /\ rerun = {}
    /\ SpotInit

\* GetMarkets called on any such listing
SpecPage == PageStart /\ [][PageNext]_vars

\* the three exchange feeds from their start
SpecSpot == Init /\ [][SpotNext]_vars

\* the discovery loop's timer in every minute of the hour
SpecTimer == TimerStart /\ [][TimerNext]_vars

\* the tasks of KalshiFeed on its two locks
SpecLocks == Init /\ [][LockNext]_vars

\* what main does before it starts the feeds
StartupNext ==
    \/ Signal \/ GetBalanceOK \/ GetBalanceFail \/ BackoffSecond
    \/ BackoffElapsed \/ BackoffCancelled

\* main's auth check, a second at a time
SpecStartup == MainInit /\ [][StartupNext]_vars

\* main starts on day 1 in a directory that may hold the file of day 0 and
\* a .gz.tmp left from compressing it, and the file of day 1
SweepStart ==
    /\ FeedInit /\ PartsInit
    /\ \E files \in SUBSET {Src(0), Tmp(0), Src(1)} :
           CollInitIn(SecondsPerDay + 1, files, EmptyMap)
    /\ mainPc = "auth"
    /\ attempt = 1
    /\ sigCancelled = FALSE
    /\ exitCode = 0
    /\ spotPc = "off"
    /\ waited = 0

\* main up to c.Run(ctx)
SweepNext ==
    \/ StartupNext \/ WaitForFeeds \/ NewWriterOK \/ NewWriterFail

\* the start of the process in a directory a previous run has left
SpecSweep == SweepStart /\ [][SweepNext]_vars

\* main from the auth check to the exit of the process
SpecMain == MainInit /\ [][MainNext]_vars

\* the collector's tick beside the stream and its discovery
SpecTick == Init /\ [][TickNext]_vars

\* the exchange feeds and BRTIProxy.Snapshot
SpecIndex == Init /\ [][IndexNext]_vars

\* the collector's loop, the Writer and the compressor across UTC midnight
SpecRotate == RotateInit /\ [][RotateNext]_vars

(***************************************************************************)
(* Properties of the stream.                                               *)
(***************************************************************************)
\* the step that ends the writeMu section of UpdateSubscriptions on a
\* stream that has a connection
USLockedStep == dPc = "us_lock" /\ dPc' # "us_lock" /\ conn # 0

\* C1 as stated: whatever the state before, when UpdateSubscriptions(D) has
\* run on a connected stream, subscribedTickers is exactly D, also while the
\* subscribe is not acknowledged (tickerSID = 0).
C1SubscribedIsDesired ==
    [][USLockedStep => subscribedTickers' = usDesired]_vars

\* C1 amended: when UpdateSubscriptions(D) has run on a connected stream,
\* subscribedTickers is D if the subscribe was acknowledged (tickerSID # 0);
\* with tickerSID = 0 no removal is made and it is D together with what was
\* subscribed before.
C1SubscribedAfterReconcile ==
    [][USLockedStep =>
          subscribedTickers' = IF tickerSID # 0 THEN usDesired
                               ELSE usDesired \cup subscribedTickers]_vars

\* UpdateSubscriptions has run before the acknowledgement and has kept
\* tickers that are no longer desired
C1Witness ==
    /\ dPc = "us_cleanup"
    /\ tickerSID = 0
    /\ usToRemove # {}
    /\ usToRemove \subseteq subscribedTickers
    /\ usToRemove \cap desiredTickers = {}

\* the subscribe commands written successfully on the connection that name t
SubscribesNaming(t) ==
    {i \in DOMAIN wire :
        wire[i].cmd = "subscribe" /\ wire[i].ok /\ t \in wire[i].tickers}

\* C2: on a connection no ticker is named by more than one subscribe
\* command, however UpdateSubscriptions interleaves with the reconnect.
C2OneSubscribePerTicker ==
    \A t \in Tickers : Cardinality(SubscribesNaming(t)) <= 1

\* C3: no stored orderbook level has a quantity of zero or less.
C3LevelsPositive ==
    \A t \in DOMAIN books :
        /\ \A p \in DOMAIN books[t].Yes : books[t].Yes[p] > 0
        /\ \A p \in DOMAIN books[t].No : books[t].No[p] > 0

\* the last quantity a snapshot's level list gives for price p
LastQty(levels, p) ==
    LET is == {i \in DOMAIN levels : levels[i][1] = p}
    IN  levels[CHOOSE i \in is : \A j \in is : j <= i][2]

\* the price -> qty map a snapshot's level list stands for
LevelsOf(levels) ==
    [p \in {levels[i][1] : i \in DOMAIN levels} |-> LastQty(levels, p)]

\* C4: a delta for a ticker whose book is absent or not ready changes no
\* state and no Snapshot() result, and a snapshot that arrives later makes
\* the book exactly the snapshot's levels, so that no dropped delta shows.
C4DroppedDeltaLeavesNoTrace ==
    [][\A m \in BookMsgs :
          /\ (/\ Handle(m)
              /\ m.type = "orderbook_delta"
              /\ (m.ticker \notin DOMAIN books \/ ~books[m.ticker].Ready))
             => /\ UNCHANGED <<readVars, writeVars, connected>>
                /\ Snapshot' = Snapshot
          /\ (Handle(m) /\ m.type = "orderbook_snapshot")
             => books'[m.ticker] =
                    [Yes |-> LevelsOf(m.yes), No |-> LevelsOf(m.no),
                     Ready |-> TRUE]]_vars

\* a delta for "A" was dropped on this connection, then scenario S2's
\* snapshot arrived, and the book is that snapshot
C4Witness ==
    /\ "A" \in dropped
    /\ "A" \in DOMAIN books
    /\ books["A"] = [Yes |-> (50 :> 10) @@ (51 :> 5), No |-> (49 :> 8),
                     Ready |-> TRUE]

\* the side the reference semantics leaves: old + d at the price, the level
\* gone when that is zero or less, every other level as it was
RefSide(old, p, d) ==
    LET q == (IF p \in DOMAIN old THEN old[p] ELSE 0) + d
    IN  [x \in (DOMAIN old \ {p}) \cup (IF q > 0 THEN {p} ELSE {}) |->
            IF x = p THEN q ELSE old[x]]

\* C5: a delta on a ready book leaves the reference result at its side and
\* price and leaves the other side and every other book as they were.
C5DeltaMatchesReference ==
    [][\A m \in BookMsgs :
          (/\ Handle(m)
           /\ m.type = "orderbook_delta"
           /\ m.ticker \in DOMAIN books
           /\ books[m.ticker].Ready)
          => /\ DOMAIN books' = DOMAIN books
             /\ \A t \in DOMAIN books \ {m.ticker} : books'[t] = books[t]
             /\ books'[m.ticker].Ready
             /\ books'[m.ticker].Yes =
                    IF m.side = "yes"
                    THEN RefSide(books[m.ticker].Yes, m.price, m.delta)
                    ELSE books[m.ticker].Yes
             /\ books'[m.ticker].No =
                    IF m.side = "yes"
                    THEN books[m.ticker].No
                    ELSE RefSide(books[m.ticker].No, m.price, m.delta)]_vars

\* scenario S2's result: yes = {50:10, 51:8}, no = {}
C5Witness ==
    /\ "A" \in DOMAIN books
    /\ books["A"].Ready
    /\ books["A"].Yes = (50 :> 10) @@ (51 :> 8)
    /\ books["A"].No = EmptyMap

\* the update_subscription commands with action act among cmds
Updates(cmds, act) ==
    {i \in DOMAIN cmds :
        cmds[i].cmd = "update_subscription" /\ cmds[i].action = act}

\* what a writeMu section has added to the wire
Written == SubSeq(wire', Len(wire) + 1, Len(wire'))

\* cmds holds exactly one update_subscription act naming ts and citing both
\* sids when ts is non-empty, and none when it is empty
OneUpdate(cmds, act, ts) ==
    IF ts = {} THEN Updates(cmds, act) = {}
    ELSE /\ Cardinality(Updates(cmds, act)) = 1
         /\ \A i \in Updates(cmds, act) :
                /\ cmds[i].tickers = ts
                /\ cmds[i].sids = <<tickerSID, orderbookSID>>

\* C6: with acknowledged sids, UpdateSubscriptions(D) with S subscribed
\* writes exactly one add_markets naming D \ S if that is non-empty, exactly
\* one remove_markets naming S \ D if that is non-empty and nothing else; its
\* cleanup deletes the prices, books and metadata of S \ D and leaves every
\* other ticker's entries as they are.
C6ReconcileCommands ==
    [][/\ (USLockedStep /\ tickerSID # 0)
          => /\ OneUpdate(Written, "add_markets", usDesired \ subscribedTickers)
             /\ OneUpdate(Written, "remove_markets",
                          subscribedTickers \ usDesired)
             /\ Len(Written) = Cardinality(Updates(Written, "add_markets"))
                               + Cardinality(Updates(Written, "remove_markets"))
             /\ usToRemove' = subscribedTickers \ usDesired
       /\ (dPc = "us_cleanup" /\ dPc' = "idle")
          => /\ DOMAIN prices' = DOMAIN prices \ usToRemove
             /\ DOMAIN books' = DOMAIN books \ usToRemove
             /\ DOMAIN metadata' = DOMAIN metadata \ usToRemove
             /\ \A t \in DOMAIN prices' : prices'[t] = prices[t]
             /\ \A t \in DOMAIN books' : books'[t] = books[t]
             /\ \A t \in DOMAIN metadata' : metadata'[t] = metadata[t]]_vars

\* UpdateSubscriptions has added "B" and removed "A" on acknowledged sids
\* and has cleaned up: "A" has no entry left, "B" has kept its price
C6Witness ==
    /\ dPc = "idle"
    /\ Len(wire) = 3
    /\ wire[2].action = "add_markets" /\ wire[2].tickers = {"B"}
    /\ wire[3].action = "remove_markets" /\ wire[3].tickers = {"A"}
    /\ subscribedTickers = {"B"}
    /\ "A" \notin DOMAIN prices \cup DOMAIN books \cup DOMAIN metadata
    /\ "B" \in DOMAIN prices /\ "B" \in DOMAIN metadata

(***************************************************************************)
(* Properties of the collector, its watchdog and its Writer.               *)
(***************************************************************************)
\* C7: of two records appended one after the other the second has the
\* greater ts, and if their UTC dates differ the second is in another file
\* than the first (the Writer rotated in between) and the first one's file
\* has been handed to compressFile.
C7ConsecutiveRecords ==
    [][(lastRec # None /\ lastRec' # lastRec) =>
          LET a == lastRec[1]
              b == lastRec'[1]
          IN  /\ b.ts > a.ts
              /\ DateOf(b.ts) # DateOf(a.ts) =>
                     /\ b.file # a.file
                     /\ a.file \in DOMAIN comp']_vars

\* a step of the watchdog that makes its stall check
StallCheckStep == wdPc = "run" /\ (wdNext' # wdNext \/ wdPc' # wdPc)

\* C8: a stall check cancels if and only if lastWriteTime is not the zero
\* time and more than 90 s have passed since it.
C8CancelIffStalled ==
    [][StallCheckStep =>
          (cancelled' <=>
              (lastWriteTime # 0 /\ now - lastWriteTime > StallThreshold))]_vars

\* a stall check made exactly 90 s after the last successful write has not
\* cancelled
C8Witness ==
    /\ ~cancelled
    /\ lastWriteTime # 0
    /\ now - lastWriteTime = StallThreshold
    /\ wdNext = now + CheckPeriod

\* every tick has ended without a record for n seconds or longer
FailingFor(n) == stallSince # 0 /\ now - stallSince >= n

C10RotationAndCompression ==
    /\ [][\A openOK, writeOK \in BOOLEAN :
             (/\ TickWrite(TRUE, openOK, writeOK, EmptyMap)
              /\ wFile # None
              /\ wFile[1].date # DateOf(now))
             => IF openOK
                THEN /\ wFile' = File(DateOf(now), TRUE)
                     /\ Src(DateOf(now)) \in fs'
                     /\ wFile[1].date \notin DOMAIN comp
                     /\ DOMAIN comp' = DOMAIN comp \cup {wFile[1].date}
                     /\ comp'[wFile[1].date] = "stat_gz"
                ELSE /\ wFile' = File(wFile[1].date, FALSE)
                     /\ comp' = comp /\ fs' = fs]_vars
    /\ [](\A d \in DOMAIN comp :
             comp[d] = "compressed"
             => Gz(d) \in fs /\ Tmp(d) \notin fs /\ Src(d) \notin fs)

\* after midnight the Writer is on day 1's file and compressFile has gone
\* through on day 0's
C10Witness ==
    /\ wFile = File(1, TRUE)
    /\ 0 \in DOMAIN comp
    /\ comp[0] = "compressed"
    /\ fs = {Gz(0), Src(1)}

(***************************************************************************)
(* Properties of BRTIProxy.                                                *)
(***************************************************************************)
\* the feeds Snapshot counts: not stale, price above 0
Fresh == {f \in Feeds : ~feeds[f].stale /\ feeds[f].midPrice > 0}

\* the k-th smallest mid-price among the fresh feeds
KthFresh(k) ==
    CHOOSE v \in {feeds[f].midPrice : f \in Fresh} :
        /\ Cardinality({f \in Fresh : feeds[f].midPrice < v}) < k
        /\ Cardinality({f \in Fresh : feeds[f].midPrice <= v}) >= k

\* what Snapshot is to return in the current state
MedianOfFresh ==
    LET n == Cardinality(Fresh)
    IN  IF n = 0 THEN lastFreshRet
        ELSE IF n % 2 = 1 THEN KthFresh((n + 1) \div 2)
        ELSE (KthFresh(n \div 2) + KthFresh(n \div 2 + 1)) \div 2

\* C11: Snapshot returns the middle mid-price of the fresh feeds when their
\* count is odd, the mean of the two middle ones when it is even, and with
\* no fresh feed what the last Snapshot with a fresh feed returned (0 if
\* there was none): in every state a call would return that, and every call
\* made has returned it.
C11MedianOfFresh ==
    /\ [](BrtiSnapshot(feeds, brtiPrice).ret = MedianOfFresh)
    /\ [][BrtiCall => brtiRet' = MedianOfFresh]_vars

\* {70000, 70010, 70020} with the third stale: Snapshot has returned 70005
C11Witness ==
    /\ feeds["coinbase"] = [midPrice |-> 70000, stale |-> FALSE]
    /\ feeds["kraken"] = [midPrice |-> 70010, stale |-> FALSE]
    /\ feeds["bitstamp"] = [midPrice |-> 70020, stale |-> TRUE]
    /\ brtiRet = 70005
    /\ lastFreshRet = 70005

(***************************************************************************)
(* Properties of the record's markets.                                     *)
(***************************************************************************)
\* the secs_left of the markets of the last record written
RecSecs == lastRec[1].secs

\* C12: secs_left is never negative: in every record written, and in what
\* a tick would read in any state from the stream's Snapshot or from
\* restFallback, a market past its expiry or with an expiry that did not
\* parse included.
C12SecsLeftNonNegative ==
    /\ lastRec # None => \A tk \in DOMAIN RecSecs : RecSecs[tk] >= 0
    /\ \A rest \in TickRest :
           \A tk \in DOMAIN TickMarkets(rest) : TickMarkets(rest)[tk] >= 0
    /\ \A tk \in DOMAIN Snapshot : Snapshot[tk].SecsLeft >= 0

\* a record from the stream's Snapshot, stamped after A's expiry, with B's
\* expiry the zero time: both at 0
C12Witness ==
    /\ lastRec # None
    /\ lastRec[1].ws
    /\ lastRec[1].ts > ExpiryOf["A"]
    /\ DOMAIN RecSecs = {"A", "B"}
    /\ RecSecs["A"] = 0
    /\ RecSecs["B"] = 0

\* C13: the secs_left of every market of a record is max(0, expiry - ts)
\* for the ts stamped on that record, however long after ts the markets
\* were read.
C13SecsLeftFromRecordTs ==
    lastRec # None
    => \A tk \in DOMAIN RecSecs :
           RecSecs[tk] = IF ExpiryOf[tk] - lastRec[1].ts < 0 THEN 0
                         ELSE ExpiryOf[tk] - lastRec[1].ts

\* C14: every ticker of a record read from the stream's Snapshot has been
\* in desiredTickers by then (the others come from restFallback in the
\* same tick).
C14RecordTickersWereDesired ==
    (lastRec # None /\ lastRec[1].ws) => DOMAIN RecSecs \subseteq everDesired

(***************************************************************************)
(* Properties of the stream's Snapshot.                                    *)
(***************************************************************************)
\* the view's ticker has no OrderBook, or one that is not ready
NoBookFor(t) == t \notin DOMAIN books \/ ~books[t].Ready

\* the price fields of the last ticker message of the peer for t
LastTickerPrice(t) == handleTicker(EmptyMap, TickerMsg(t))[t]

\* C15 as stated: a view without a ready OrderBook has no levels, and it
\* carries the last ticker message's prices if one was ever handled for
\* its ticker.
C15NoBookKeepsEverReceivedPrices ==
    \A t \in DOMAIN Snapshot :
        NoBookFor(t)
        => /\ Snapshot[t].YesBook = <<>>
           /\ Snapshot[t].NoBook = <<>>
           /\ t \in everPriced => Snapshot[t].Price = LastTickerPrice(t)

\* C15: a view without a ready OrderBook has no levels, and it carries the
\* ContractPrice stored for its ticker: the prices of the last ticker
\* message handled since the ticker's caches were last cleaned up by
\* UpdateSubscriptions (zeros if there is none); clearing the books on a
\* reconnect empties every view's levels and leaves its prices.
C15NoBookKeepsStoredPrices ==
    /\ [](\A t \in DOMAIN Snapshot :
             NoBookFor(t)
             => /\ Snapshot[t].YesBook = <<>>
                /\ Snapshot[t].NoBook = <<>>
                /\ Snapshot[t].Price =
                       IF t \in DOMAIN prices THEN LastTickerPrice(t)
                       ELSE ZeroPrice)
    /\ [](\A t \in DOMAIN prices : t \in everPriced)
    /\ [][ConnectClearBooks
          => \A t \in DOMAIN Snapshot' :
                 /\ Snapshot'[t].YesBook = <<>>
                 /\ Snapshot'[t].NoBook = <<>>
                 /\ Snapshot'[t].Price = Snapshot[t].Price]_vars
    /\ [][\A t \in DOMAIN prices \ DOMAIN prices' : USCleanup]_vars

\* after a reconnect has cleared the books, A's view has no levels and the
\* prices of the ticker message handled on the earlier connection
C15Witness ==
    /\ conn = 2
    /\ "A" \in DOMAIN Snapshot
    /\ "A" \notin DOMAIN books
    /\ Snapshot["A"].YesBook = <<>>
    /\ Snapshot["A"].NoBook = <<>>
    /\ Snapshot["A"].Price = LastTickerPrice("A")
    /\ Snapshot["A"].Price.YesBid = 40

(***************************************************************************)
(* Properties of main.                                                     *)
(***************************************************************************)
\* C16: a process that exits after a SIGINT or SIGTERM has arrived exits
\* with code 0, whatever main was doing when the signal arrived.
C16SignalExitsZero ==
    (mainPc = "exited" /\ sigCancelled) => exitCode = 0

\* C17: every exit of the process after c.Run(ctx) has been entered, the
\* one after a watchdog stall included, has code 0.
C17MidRunExitsZero ==
    [][RunReturned => exitCode' = 0]_vars

(***************************************************************************)
(* Properties of the lock discipline.                                      *)
(***************************************************************************)
\* the tasks that hold a lock task t waits for
HoldersAhead(t) ==
    CASE LockOp(t) = "W+" -> {wmu} \ {""}
      [] LockOp(t) = "M+" -> ({muW} \ {""}) \cup muR
      [] LockOp(t) = "R+" -> ({muW} \ {""}) \cup {u \in LockTasks \ {t} : WantsMu(u)}
      [] OTHER -> {}

\* the tasks t waits for, directly or through the tasks those wait for
WaitsForAll(t) ==
    LET Behind(S) == UNION {HoldersAhead(h) : h \in S}
        a == HoldersAhead(t)
        b == a \cup Behind(a)
    IN  b \cup Behind(b)

\* C18: the task that holds writeMu neither holds mu nor waits for it; and
\* no deadlock: a task that waits for a lock waits for some task, no task
\* waits for itself through any chain of waiting tasks, and some task can
\* always take a step.
C18NoMuUnderWriteMu ==
    /\ \A t \in LockTasks :
           wmu = t => /\ LockOp(t) \notin {"M+", "R+", "M-", "R-"}
                      /\ muW # t
                      /\ t \notin muR
    /\ \A t \in LockTasks :
           Blocked(t) => /\ HoldersAhead(t) # {}
                         /\ t \notin WaitsForAll(t)
    /\ \E t \in LockTasks : ~Blocked(t)

\* all three tasks at a lock at once: UpdateSubscriptions holds writeMu,
\* the reader waits for it in handleOK, and tick holds mu for reading
C18Witness ==
    /\ wmu = "disc"
    /\ lkFn["run"] = handleOKLocks /\ LockOp("run") = "W+"
    /\ muR = {"tick"}

\* C19: while UpdateSubscriptions holds writeMu, the reader does not wait
\* in the handler of any message.
C19ReaderNotBlockedByReconcile ==
    (wmu = "disc" /\ lkFn["run"] \in {handleStateLocks, handleOKLocks})
    => ~Blocked("run")

(***************************************************************************)
(* Properties of connect beside UpdateSubscriptions.                       *)
(***************************************************************************)
\* C20: an UpdateSubscriptions(D) that finds the stream not connected sets
\* desiredTickers to D and writes no command, and when connect next stores
\* connected = true with no UpdateSubscriptions call in progress,
\* subscribedTickers is the desired set of that moment.
C20ConnectSubscribesLatestDesired ==
    /\ [][(USCheckConnected /\ ~connected)
          => (desiredTickers' = usDesired /\ wire' = wire /\ dPc' = "idle")]_vars
    /\ [][(ConnectMark /\ dPc = "idle")
          => subscribedTickers' = desiredTickers']_vars

(***************************************************************************)
(* Properties of connect's reset.                                          *)
(***************************************************************************)
\* C21: after a successful dial connect sets tickerSID and orderbookSID to
\* 0, subscribedTickers to the empty set and cmdSeq to 0, then replaces
\* books by an empty map; neither step changes prices, metadata or
\* desiredTickers.
C21ConnectResets ==
    /\ [][ConnectReset
          => /\ tickerSID' = 0 /\ orderbookSID' = 0
             /\ subscribedTickers' = {} /\ cmdSeq' = 0
             /\ UNCHANGED <<prices, metadata, desiredTickers>>]_vars
    /\ [][ConnectClearBooks
          => /\ books' = EmptyMap
             /\ tickerSID' = 0 /\ orderbookSID' = 0
             /\ UNCHANGED <<prices, metadata, desiredTickers>>]_vars

\* the second connection has been reset and its books cleared, with the
\* prices, metadata and desired set of the first still there
C21Witness ==
    /\ conn = 2
    /\ runPc = "read_desired"
    /\ tickerSID = 0 /\ orderbookSID = 0 /\ cmdSeq = 0
    /\ subscribedTickers = {}
    /\ books = EmptyMap
    /\ "A" \in DOMAIN prices
    /\ "A" \in DOMAIN metadata
    /\ "A" \in desiredTickers

(***************************************************************************)
(* Properties of the reconnect after a write error.                        *)
(***************************************************************************)
\* a command on the wire whose write returned an error
FailedWrites == {i \in 1..Len(wire) : ~wire[i].ok}

\* the stream is connected on a live connection with what is desired
Resubscribed ==
    connected /\ ~connBroken /\ subscribedTickers = desiredTickers

C23CancelReachesEveryTask ==
    cancelled => SpotCtxDone

(***************************************************************************)
(* Properties of the discovery period.                                     *)
(***************************************************************************)
\* C24: the period computed in minute m is 5 s exactly when m mod 15 is in
\* {0, 1, 13, 14}, and 30 s in every other minute.
C24DiscoveryPeriod ==
    wait # None
    => wait[1].interval =
           IF wait[1].minute % 15 \in {0, 1, 13, 14} THEN 5 ELSE 30

(***************************************************************************)
(* Properties of the tick's bookkeeping.                                   *)
(***************************************************************************)
\* this step is a tick's write, and Write returns success
TickWriteSucceeds ==
    \E m, o, w \in BOOLEAN :
        /\ TickWrite(m, o, w, EmptyMap)
        /\ ~Write(wFile, DateOf(now), m, o, w).err

\* C25: a tick whose Write returns success sets lastWriteTime to the time
\* of the write and adds one to tickCount; a tick whose Write returns an
\* error, a tick that panics and every other step leave both as they are;
\* so tickCount is the number of records appended.
C25CountsSuccessfulWrites ==
    /\ [][TickWriteSucceeds
          => (lastWriteTime' = now /\ tickCount' = tickCount + 1)]_vars
    /\ [][~TickWriteSucceeds => UNCHANGED <<lastWriteTime, tickCount>>]_vars
    /\ [](tickCount = Appended(lastRec))

\* one record appended, then a tick whose write failed: the count and the
\* time are those of the first
C25Witness ==
    /\ tickCount = 1
    /\ Appended(lastRec) = 1
    /\ lastWriteTime = lastRec[1].ts
    /\ stallSince > lastWriteTime
    /\ colPc = "select"


\* C26: a panic in a tick is caught inside that tick: the tick ends without
\* a record (file system, writer, tickCount and lastWriteTime as they were),
\* Run's loop is back at its select with the context as it was, a waiting
\* timer tick is taken, and a tick that writes after a recovered panic
\* appends its record and is counted like any other.
C26PanicCaughtInTick ==
    /\ [][TickPanic => /\ colPc' = "select"
                        /\ UNCHANGED <<writerVars, lastWriteTime, tickCount,
                                       cancelled, wdPc>>]_vars
    /\ []((recovered /\ colPc = "select" /\ tickReady) => ENABLED TickStart)
    /\ [][(recovered /\ TickWriteSucceeds) =>
              /\ lastRec' # None
              /\ lastRec'[1].ts = tickTs
              /\ Appended(lastRec') = Appended(lastRec) + 1
              /\ tickCount' = tickCount + 1
              /\ lastWriteTime' = now]_vars

C26Witness ==
    /\ recovered
    /\ stallSince = 0
    /\ lastRec # None
    /\ tickCount = 1
    /\ lastWriteTime = lastRec[1].ts
    /\ colPc = "select"
    /\ ~cancelled

\* the waits of the auth check, by the attempt that failed
C27Waits == <<15, 60, 135, 240>>

\* C27: the auth check makes at most 5 attempts; attempt k+1 is made only
\* after attempt k (k = 1..4) failed and main then waited k*k*15 s (15, 60,
\* 135, 240 s); a success ends the check at once and main goes on to start
\* the feeds, after which no attempt is made; a failure of attempt 5 exits
\* with a non-zero code and no wait.
C27ReadinessProbe ==
    /\ [](attempt \in 1..MaxAuthAttempts)
    /\ [][attempt' # attempt =>
              /\ mainPc = "backoff"
              /\ attempt \in 1..(MaxAuthAttempts - 1)
              /\ attempt' = attempt + 1
              /\ waited = attempt * attempt * 15
              /\ waited = C27Waits[attempt]]_vars
    /\ [][(mainPc = "auth" /\ mainPc' = "backoff") => waited' = 0]_vars
    /\ [][GetBalanceOK => (mainPc' = "feeds" /\ UNCHANGED <<attempt, exitCode, waited>>)]_vars
    /\ [](mainPc \notin {"auth", "backoff", "exited"} => ~ENABLED (GetBalanceOK \/ GetBalanceFail))
    /\ [][(GetBalanceFail /\ attempt = MaxAuthAttempts) =>
              (mainPc' = "exited" /\ exitCode' # 0 /\ waited' = 0)]_vars
    /\ [][(GetBalanceFail /\ attempt < MaxAuthAttempts) => mainPc' = "backoff"]_vars

C27Witness ==
    /\ attempt = MaxAuthAttempts
    /\ mainPc = "exited"
    /\ exitCode = 1
    /\ ~sigCancelled
    /\ waited = 0

\* C28: GetMarkets returns every contract of the series with the status
\* asked for, in listing order, however the exchange pages the listing.
C28MarketsComplete ==
    gmResult # None =>
        gmResult[1].markets = Matching(exMarkets, gmResult[1].status)

\* the run of compressFile for date d has found, or is about to find, the
\* .gz in place
DupRun(d) ==
    \/ comp[d] \in {"stat_src_dup", "remove_dup"}
    \/ comp[d] = "stat_gz" /\ Gz(d) \in fs

\* C29: a run of compressFile that finds <src>.gz in place takes nothing
\* from the directory but the source and adds nothing to it, so the .gz and
\* any .gz.tmp stay as they are, and it returns without compressing; after
\* a run that ended with the file compressed the source is gone and the
\* .gz is there, and a run started again after it leaves the directory as
\* it is.
C29DuplicateOnlyDeletesSource ==
    /\ [][\A d \in Days :
              (DupRun(d) /\ comp'[d] # comp[d]) =>
                  /\ comp'[d] \in {"stat_src_dup", "remove_dup", "returned"}
                  /\ fs' \subseteq fs
                  /\ fs \ fs' \subseteq {Src(d)}
                  /\ (fs' # fs) => comp[d] = "remove_dup"]_vars
    /\ [](\A d \in Days :
              comp[d] = "compressed" =>
                  (Gz(d) \in fs /\ Src(d) \notin fs /\ Tmp(d) \notin fs))
    /\ [][\A d \in rerun :
              (comp'[d] # comp[d] /\ comp[d] \notin CompressDone) =>
                  (fs' = fs /\ comp'[d] \in {"stat_src_dup", "returned"})]_vars

C29Witness ==
    /\ 0 \in rerun
    /\ comp[0] = "returned"
    /\ Gz(0) \in fs /\ Src(0) \notin fs
    /\ 1 \notin rerun
    /\ comp[1] = "returned"
    /\ Gz(1) \in fs /\ Src(1) \notin fs /\ Tmp(1) \in fs

\* C30: once the process has started (main is in c.Run), the startup sweep
\* has been made: it would find nothing more to do, that is, no .gz.tmp is
\* left in the directory and every .jsonl of another date than today's has
\* a compressFile task, and today's file has none.
C30StartupSweep ==
    mainPc = "run" =>
        LET sweep == CompressStaleFiles(fs, DateOf(now))
        IN  /\ sweep.fs = fs
            /\ sweep.spawn \subseteq DOMAIN comp
            /\ DateOf(now) \notin DOMAIN comp

\* the date of the file the Writer holds open, if any
LiveDates == IF wFile # None /\ wFile[1].open THEN {wFile[1].date} ELSE {}

\* C31: the Writer holds at most one file; compressFile is started only by
\* the Write that has closed the file of that date and opened the file of
\* another date; and from then on the Writer is never on the file of a date
\* that has a compressFile task, so no task reads or removes the file
\* being appended to.
C31CompressorNeverOnLiveFile ==
    /\ [](Len(wFile) <= 1)
    /\ [][\A d \in Days :
              (d \notin DOMAIN comp /\ d \in DOMAIN comp') =>
                  /\ wFile # None /\ wFile[1].date = d
                  /\ wFile' # None /\ wFile'[1].open /\ wFile'[1].date # d
                  /\ comp'[d] = "stat_gz"]_vars
    /\ [](\A d \in DOMAIN comp : wFile = None \/ wFile[1].date # d)
    /\ [](LiveDates \cap DOMAIN comp = {})

\* day 1's file is being appended to while compressFile copies day 0's
C31Witness ==
    /\ wFile = File(1, TRUE)
    /\ lastRec # None /\ lastRec[1].file = 1
    /\ 0 \in DOMAIN comp /\ comp[0] = "copy"
    /\ Src(0) \in fs /\ Src(1) \in fs

\* C32: an update of a feed with a mid-price that is NaN or not above 0
\* leaves the feed's stored price and its staleness as they were (and the
\* other feeds too); an update with a price above 0 stores the price and
\* makes the feed fresh in the same step.
C32RejectedPriceChangesNothing ==
    [][\A f \in Feeds : \A price \in FeedPrices :
           FeedUpdate(f, price) =>
               IF price = NaN \/ price \in {-10, 0}
               THEN feeds' = feeds
               ELSE /\ feeds'[f] = [midPrice |-> price, stale |-> FALSE]
                    /\ \A g \in Feeds \ {f} : feeds'[g] = feeds[g]]_vars

\* a feed that holds a price and has gone stale is offered a price that is
\* rejected; another feed is offered NaN before its first price
C32Witness ==
    /\ rejected = {"coinbase", "kraken"}
    /\ feeds["coinbase"] = [midPrice |-> 70010, stale |-> TRUE]
    /\ feeds["kraken"] = [midPrice |-> 0, stale |-> TRUE]
    /\ feeds["bitstamp"] = [midPrice |-> 70020, stale |-> FALSE]

\* C33: the Run of a feed ends only once its scope has been cancelled.
C33RunEndsOnlyOnCancel ==
    \A f \in Feeds : sfPc[f] \in {"returned", "panicked"} => sfCancelled

\* the reconnect loop itself: every connect that ends is followed by a wait
\* of 2 s and then the next connect, and nothing else leads to a connect
SpotReconnectsAfterWait ==
    [][\A f \in Feeds :
          /\ (sfPc[f] \in {"connect", "read"} /\ sfPc'[f] \notin {sfPc[f], "panicked"})
                 => (sfPc'[f] \in {"read", "wait"} /\ sfWaited'[f] = 0)
          /\ (sfPc[f] # "connect" /\ sfPc'[f] = "connect")
                 => (sfPc[f] = "wait" /\ sfWaited[f] = ReconnectWait)]_vars

\* C34: whatever step of compressFile fails, a source leaves the directory
\* only while its .gz is there, no .gz ever leaves it, and a .gz enters it
\* only by the rename of the .gz.tmp, which is reached only after the
\* copy, the gzip close and the close of the .gz.tmp have all succeeded.
C34CompressNeverLosesData ==
    /\ [][\A d \in Days :
              /\ (Src(d) \in fs /\ Src(d) \notin fs') => (Gz(d) \in fs /\ Gz(d) \in fs')
              /\ Gz(d) \in fs => Gz(d) \in fs'
              /\ (Gz(d) \notin fs /\ Gz(d) \in fs') =>
                     (comp[d] = "rename" /\ Tmp(d) \in fs /\ Tmp(d) \notin fs')
              /\ (comp[d] # "rename" /\ comp'[d] = "rename") => comp[d] = "tmp_close"
              /\ (comp[d] # "tmp_close" /\ comp'[d] = "tmp_close") => comp[d] = "gz_close"
              /\ (comp[d] # "gz_close" /\ comp'[d] = "gz_close") => comp[d] = "copy"
              /\ (comp[d] # "copy" /\ comp'[d] = "copy") =>
                     (comp[d] = "create" /\ Tmp(d) \in fs')]_vars
    /\ [](\A d \in Days :
              comp[d] = "failed" => Src(d) \in fs)

\* the compression of day 0's file has failed before the rename and left
\* the source and no .gz.tmp; that of day 1's has failed at the last
\* remove and left the source beside the .gz
C34Witness ==
    /\ comp[0] = "failed"
    /\ Src(0) \in fs /\ Gz(0) \notin fs /\ Tmp(0) \notin fs
    /\ comp[1] = "failed"
    /\ Src(1) \in fs /\ Gz(1) \in fs /\ Tmp(1) \notin fs
    /\ rerun = {}

\* C35: the record appended last is in the file of the UTC date of its own
\* ts.
C35RecordInFileOfItsDate ==
    lastRec # None => lastRec[1].file = DateOf(lastRec[1].ts)

\* C36: while the watchdog has not cancelled, the last successful write (if
\* there was one) is at most 120 s back; and the step that cancels is made
\* more than 90 s and at most 120 s after the last successful write.
C36StallResponseBounded ==
    /\ [](~cancelled =>
              (lastWriteTime = 0
               \/ now - lastWriteTime <= StallThreshold + CheckPeriod))
    /\ [][(~cancelled /\ cancelled') =>
              /\ lastWriteTime # 0
              /\ lastWriteTime' = lastWriteTime
              /\ now - lastWriteTime > StallThreshold
              /\ now - lastWriteTime <= StallThreshold + CheckPeriod]_vars

\* the stall check made 90 s after the last write did not cancel, and the
\* next one, 120 s after it, has just cancelled
C36Witness ==
    /\ cancelled
    /\ wdPc = "done"
    /\ lastWriteTime # 0
    /\ now - lastWriteTime = StallThreshold + CheckPeriod
    /\ colPc # "returned"

\* the tickers of the subscription that tickerSID identifies: those named
\* by the subscribe command it acknowledges and by the add_markets updates
\* that carry it
InSubscription(sid) ==
    UNION {wire[i].tickers :
              i \in {j \in DOMAIN wire :
                        \/ /\ wire[j].cmd = "subscribe"
                           /\ 2 * Cardinality({k \in 1..j : wire[k].cmd = "subscribe"
                                                            /\ wire[k].ok}) - 1 = sid
                        \/ /\ wire[j].action = "add_markets"
                           /\ wire[j].sids[1] = sid}}

\* C37: on one connection at most one subscribe command is written; once
\* tickerSID and orderbookSID are not zero they stay as they are until the
\* next connect resets them; and once they are set every ticker of
\* subscribedTickers is in the subscription they identify.
C37OneSubscribePerConnection ==
    /\ [](Cardinality({i \in DOMAIN wire : wire[i].cmd = "subscribe"}) <= 1)
    /\ [][(tickerSID # 0 /\ orderbookSID # 0 /\ conn' = conn /\ runPc # "reset")
              => UNCHANGED <<tickerSID, orderbookSID>>]_vars
    /\ [](tickerSID # 0 => subscribedTickers \subseteq InSubscription(tickerSID))

C39FailedFetchRemovesNothing ==
    [][dPc' # dPc =>
          \A t \in hidden :
              /\ t \in desiredTickers => t \in desiredTickers'
              /\ t \in subscribedTickers => t \in subscribedTickers'
              /\ t \in DOMAIN prices => t \in DOMAIN prices'
              /\ t \in DOMAIN books => t \in DOMAIN books'
              /\ t \in DOMAIN metadata => t \in DOMAIN metadata']_vars

=========================================================================
